---- MODULE Spec2Model ----
(***************************************************************************)
(* ExtensionDetox static triage core: TriagePipeline.run and its stages,   *)
(* the AI Vibe Check aggregation, and ThreatReportGenerator.generate.      *)
(*                                                                         *)
(* Numbers.  Python floats are modelled as exact decimals:                 *)
(*   - a risk, score or confidence r is the integer 100*r      (1.0 = 100) *)
(*   - a scoring weight w is the integer 100*w                             *)
(*   - a composite c is the integer 20000*c                (1.0 = 20000),  *)
(*     the common denominator of risk*weight (1/10000) and of the halved   *)
(*     static pair (metadata_risk + forensic_risk) / 2.                    *)
(***************************************************************************)
EXTENDS Integers, Sequences, FiniteSets, TLC

VARIABLES
    \* TriagePipeline (core/triage/pipeline.py)
    weights,        \* self.weights, set by __init__ from config["scoring"]
    skip_ai,        \* self.skip_ai
    vsix,           \* what the file at vsix_path is: "valid", "unsafe", "badzip", "unreadable"
    cbGiven,        \* the caller passes pre_ai_callback= to triage_vsix
    pc,             \* position of the triage call
    result,         \* the TriageResult being filled in
    calls,          \* the stages invoked so far, in order
    raisedIn,       \* the stages whose try block ended in the except branch
    \* AIVibeChecker (core/triage/ai_vibe_check.py)
    aiPlan,         \* what the AI service answers: per target file, per chunk
    aiOut,          \* what analyze_vsix returned
    aiDone,         \* analyze_vsix has returned
    archive,        \* the entries and the manifest of the archive analyze_vsix opens
    rule_hits,      \* yara_res.findings of the run: file_path and severity, in order
    targets,        \* the files analyze_vsix handed to analyze_source, in order
    source,         \* the source argument of _chunk_source, a sequence of characters
    max_chunk_tokens,   \* the max_chunk_tokens argument of _chunk_source
    chunks,         \* the list _chunk_source returned
    chunked,        \* _chunk_source has returned
    \* ForensicChecker (core/triage/forensic_check.py)
    entries,        \* zf.infolist() of the archive scan_vsix opens, directories left out
    forensic,       \* the ForensicScanResult scan_vsix returned
    scanned,        \* scan_vsix has returned
    \* ThreatReportGenerator (core/reporting/threat_report.py) and the database
    gen_weights,    \* self.weights of the generator
    extensions,     \* rows of the extensions table
    blocklist,      \* extension_id column of the blocklist table
    scan_history,   \* rows of the scan_history table, in insertion order
    req,            \* the arguments of generate
    reports,        \* the ThreatReports generate returned, in order
    \* the HTTP API (api.py), the scraper and the database sequences
    STOP_SIGNAL,    \* the global STOP_SIGNAL
    vsix_dir,       \* per extension_id, the content of its file in the archive directory
    seqs,           \* next value of the id sequence of each table
    handlers        \* per request, the position and locals of its handler

triageVars == <<weights, skip_ai, vsix, cbGiven, pc, result, calls, raisedIn>>
chunkVars == <<source, max_chunk_tokens, chunks, chunked>>
forensicVars == <<entries, forensic, scanned>>
aiVars == <<aiPlan, aiOut, aiDone, archive, rule_hits, targets,
            source, max_chunk_tokens, chunks, chunked>>
reportVars == <<gen_weights, extensions, blocklist, scan_history, req, reports>>
apiVars == <<STOP_SIGNAL, vsix_dir, seqs, handlers>>
vars == <<weights, skip_ai, vsix, cbGiven, pc, result, calls, raisedIn,
          aiPlan, aiOut, aiDone, archive, rule_hits, targets,
          source, max_chunk_tokens, chunks, chunked,
          entries, forensic, scanned,
          gen_weights, extensions, blocklist, scan_history, req, reports,
          STOP_SIGNAL, vsix_dir, seqs, handlers>>

(***************************************************************************)
(* Bounds and scales                                                       *)
(***************************************************************************)
MaxFindings == 1        \* findings one stage reports beyond the fixed ones
MaxChunks == 2          \* chunks one source file is split into
MaxReports == 2         \* calls of generate in one behaviour

One == 100              \* a risk of 1.0
COne == 20000           \* a composite of 1.0

Max(a, b) == IF a >= b THEN a ELSE b
Min(a, b) == IF a <= b THEN a ELSE b

\* every non-empty sequence over S of length <= n
SeqsUpTo(S, n) == UNION {[1..k -> S] : k \in 1..n}

(***************************************************************************)
(* Findings: how many findings of each severity a stage result carries     *)
(***************************************************************************)
F(c, h, m, i) == [CRITICAL |-> c, HIGH |-> h, MEDIUM |-> m, INFO |-> i]
NoFindings == F(0, 0, 0, 0)
Count(f) == f.CRITICAL + f.HIGH + f.MEDIUM + f.INFO

\* a stage result object; present = FALSE stands for None
StageResult(f, risk) == [present |-> TRUE, findings |-> f, risk_score |-> risk]
None == [present |-> FALSE, findings |-> NoFindings, risk_score |-> 0]

\* an outcome of one stage call
Returned(f, risk) == [raised |-> FALSE, res |-> StageResult(f, risk)]
Raised == [raised |-> TRUE, res |-> None]

(***************************************************************************)
(* MetadataScanner.scan_vsix                                               *)
(***************************************************************************)
\* _calculate_risk_score: severity weights, +0.1 for wildcard activation, cap 1.0
MetadataRiskScore(f, has_wildcard_activation) ==
    Min(40 * f.CRITICAL + 15 * f.HIGH + 5 * f.MEDIUM + 1 * f.INFO
            + (IF has_wildcard_activation THEN 10 ELSE 0),
        One)

\* _parse_manifest .. _scan_source_files on a readable archive with a manifest:
\* "*" gives one HIGH, "onStartupFinished" alone one MEDIUM ACTIVATION_WILDCARD
\* finding; the other checks add HIGH, MEDIUM and INFO findings, never CRITICAL.
ManifestFindings ==
    {[wildcard |-> a, f |-> F(0, h + (IF a = "star" THEN 1 ELSE 0),
                                 m + (IF a = "startup" THEN 1 ELSE 0), i)] :
        a \in {"none", "star", "startup"},
        h \in 0..MaxFindings, m \in 0..MaxFindings, i \in 0..MaxFindings}

\* what scan_vsix does for each kind of file at vsix_path
MetadataOutcomes(kind) ==
    CASE kind = "unreadable" ->
            \* FileNotFoundError of line 135, or an OSError from zipfile.ZipFile
            {Raised}
      [] kind = "badzip" ->
            \* except zipfile.BadZipFile: CRITICAL BAD_ARCHIVE, risk_score = 1.0
            {Returned(F(1, 0, 0, 0), One)}
      [] kind = "unsafe" ->
            \* _validate_zip_paths raises ValueError for an absolute or ".."
            \* entry name and for a file_size over 500 MiB; scan_vsix catches
            \* only zipfile.BadZipFile
            {Raised}
      [] OTHER ->
            \* an exception scan_vsix does not catch, such as the
            \* UnicodeDecodeError of a package.json that is not UTF-8
            {Raised}
            \* no package.json: CRITICAL MISSING_MANIFEST, risk_score = 1.0
            \cup {Returned(F(1, 0, 0, 0), One)}
            \cup {Returned(x.f, MetadataRiskScore(x.f, x.wildcard # "none")) :
                    x \in {y \in ManifestFindings :
                            Count(y.f) <= MaxFindings
                                + (IF y.wildcard = "none" THEN 0 ELSE 1)}}

(***************************************************************************)
(* ForensicChecker.scan_vsix and YaraEngine.scan_vsix                      *)
(***************************************************************************)
\* weights = {"CRITICAL": 0.4, "HIGH": 0.15, "MEDIUM": 0.05}, default 0.01, cap 1.0
SeverityRiskScore(f) ==
    Min(40 * f.CRITICAL + 15 * f.HIGH + 5 * f.MEDIUM + 1 * f.INFO, One)

ForensicOutcomes(kind) ==
    CASE kind = "unreadable" -> {Raised}
      [] kind = "badzip" ->
            \* except zipfile.BadZipFile: one CRITICAL BAD_ARCHIVE finding
            {Returned(F(1, 0, 0, 0), SeverityRiskScore(F(1, 0, 0, 0)))}
      [] OTHER ->
            \* HIDDEN_EXECUTABLE is CRITICAL, MAGIC_MISMATCH and UNEXPECTED_BINARY
            \* HIGH, DOUBLE_EXTENSION MEDIUM
            {Returned(f, SeverityRiskScore(f)) :
                f \in {g \in {F(c, h, m, 0) : c \in 0..MaxFindings,
                                    h \in 0..MaxFindings, m \in 0..MaxFindings} :
                            Count(g) <= MaxFindings}}

YaraOutcomes(kind) ==
    CASE kind = "unreadable" -> {Raised}
      [] kind = "badzip" ->
            \* except zipfile.BadZipFile: one CRITICAL INVALID_ARCHIVE finding
            {Returned(F(1, 0, 0, 0), SeverityRiskScore(F(1, 0, 0, 0)))}
      [] OTHER ->
            \* BUILTIN_RULES are HIGH or MEDIUM
            {Returned(f, SeverityRiskScore(f)) :
                f \in {g \in {F(0, h, m, 0) : h \in 0..MaxFindings,
                                    m \in 0..MaxFindings} :
                            Count(g) <= MaxFindings}}

(***************************************************************************)
(* AIVibeChecker                                                           *)
(***************************************************************************)
MAX_CHUNKS == 5         \* analyze_source: chunks analysed per file
MaxTargets == 2         \* analyze_vsix: targets[:2]

\* a result dict; error says whether it has an "error" key
AiDict(v, r, c, e) == [verdict |-> v, risk_score |-> r, confidence |-> c, error |-> e]

\* what the AI service does with one request: the POST fails with a
\* ConnectionError, a Timeout or an HTTPError (raise_for_status), or the stream
\* is read; the read may time out with nothing usable captured, and the
\* captured content is a JSON object (bare or fenced) or other text.
Reply(k, v, r, c) == [kind |-> k, verdict |-> v, risk_score |-> r, confidence |-> c]
FailureKinds == {"connection_error", "timeout", "http_error", "read_timeout", "non_json"}
FailureReplies == {Reply(k, "", 0, 0) : k \in FailureKinds}
JsonReplies == {Reply("json", "CLEAN", 0, 90), Reply("json", "MALICIOUS", 90, 95)}
\* JSON objects the response contract does not expect
OddJsonReplies ==
    {Reply("json", "CLEAN", 0 - 50, 90), Reply("json", "SUSPICIOUS", 150, 80),
     Reply("json", "UNKNOWN", 40, 50)}
AiReplies == FailureReplies \cup JsonReplies

FallbackResponse == AiDict("UNKNOWN", 50, 0, TRUE)

\* _parse_ai_response: bare JSON, fenced JSON, else the synthesized dict
ParseAiResponse(reply) ==
    IF reply.kind = "json"
    THEN AiDict(reply.verdict, reply.risk_score, reply.confidence, FALSE)
    ELSE AiDict("SUSPICIOUS", 50, 30, FALSE)

\* a _call_ai without response.raise_for_status(): the body of an HTTP error
\* response is read and parsed like any other content
CallAiNoRaiseForStatus(reply) ==
    IF reply.kind \in {"connection_error", "timeout"}
    THEN FallbackResponse
    ELSE ParseAiResponse(reply)

\* _call_ai
CallAi(reply) ==
    IF reply.kind \in {"connection_error", "timeout", "http_error"}
    THEN FallbackResponse
    ELSE \* a read timeout is caught inside and the captured content parsed anyway
         ParseAiResponse(reply)

SetMax(S) == CHOOSE x \in S : \A y \in S : y <= x
SetMin(S) == CHOOSE x \in S : \A y \in S : x <= y

\* the worst-case verdict both aggregations use
WorstVerdict(verdicts) ==
    IF "MALICIOUS" \in verdicts THEN "MALICIOUS"
    ELSE IF "SUSPICIOUS" \in verdicts THEN "SUSPICIOUS"
    ELSE "CLEAN"

\* analyze_source; replies[i] is the service's answer for chunk i
AnalyzeSource(replies) ==
    IF Len(replies) = 1 THEN CallAi(replies[1])
    ELSE LET n == Min(Len(replies), MAX_CHUNKS)
             res == [i \in 1..n |-> CallAi(replies[i])]
         IN  AiDict(WorstVerdict({res[i].verdict : i \in 1..n}),
                    SetMax({res[i].risk_score : i \in 1..n} \cup {0}),
                    70, FALSE)

\* analyze_vsix, "Merge results (worst-case)" over the targets analysed
MergeResults(all_results) ==
    LET n == Len(all_results)
    IN  IF n = 1 THEN all_results[1]
        ELSE AiDict(WorstVerdict({all_results[t].verdict : t \in 1..n}),
                    SetMax({all_results[t].risk_score : t \in 1..n} \cup {0}),
                    SetMin({all_results[t].confidence : t \in 1..n}),
                    FALSE)

\* the kinds of file zipfile.ZipFile opens and reads entries of; "unsafe" is a
\* well-formed ZIP with an absolute or ".." entry name or an oversized entry
Readable == {"valid", "unsafe"}

\* analyze_vsix; plan[t] is the replies for the chunks of target t, and an
\* empty plan is an archive with no package.json or no entry point
AnalyzeVsix(kind, plan) ==
    IF kind \notin Readable THEN FallbackResponse    \* BadZipFile, or any Exception
    ELSE IF plan = <<>> THEN FallbackResponse
    ELSE MergeResults([t \in 1..Min(Len(plan), MaxTargets) |-> AnalyzeSource(plan[t])])

ChunkReplies == SeqsUpTo(AiReplies, MaxChunks)
Plans == {<<>>} \cup SeqsUpTo(ChunkReplies, MaxTargets)

\* every dict analyze_source can return for one target
SourceResults ==
    {AnalyzeSource(c) : c \in ChunkReplies \cup {<<r>> : r \in OddJsonReplies}}

\* every dict analyze_vsix can return for a readable archive
AiResultsValid ==
    {FallbackResponse} \cup {MergeResults(rs) : rs \in SeqsUpTo(SourceResults, MaxTargets)}

(***************************************************************************)
(* analyze_vsix: the files handed to analyze_source                        *)
(*                                                                         *)
(* A path is a sequence of pieces, <<"./", "main">> for "./main" and       *)
(* <<"extension/", "main", ".js">> for "extension/main.js"; the empty      *)
(* sequence is the empty string.                                           *)
(***************************************************************************)
Range(q) == {q[i] : i \in 1..Len(q)}

\* suspicious_file.endswith(".js")
EndsWithJs(path) == path # <<>> /\ path[Len(path)] \in {".js", "/index.js"}

\* start_file[2:] if start_file.startswith("./") else start_file
Clean(start_file) ==
    IF start_file # <<>> /\ Head(start_file) = "./" THEN Tail(start_file) ELSE start_file

\* the six path variations tried for one entry point, in order
Variations(clean) ==
    << <<"extension/">> \o clean,
       clean,
       <<"extension/">> \o clean \o <<".js">>,
       clean \o <<".js">>,
       <<"extension/">> \o clean \o <<"/index.js">>,
       clean \o <<"/index.js">> >>

\* the loops "if f in available_files and f not in seen_targets: targets.append(f)"
RECURSIVE AddTargets(_, _, _)
AddTargets(candidates, available_files, found) ==
    IF candidates = <<>> THEN found
    ELSE LET f == Head(candidates)
         IN  AddTargets(Tail(candidates), available_files,
                        IF f \in available_files /\ f \notin Range(found)
                        THEN Append(found, f) ELSE found)

\* the yara_result argument of analyze_vsix: None, or a result with findings
NoYaraResult == [given |-> FALSE, findings |-> <<>>]
YaraResult(findings) == [given |-> TRUE, findings |-> findings]

\* 1. SMART TARGETING: the .js files of the findings, in the order of the findings
SmartTargets(yara_result, a) ==
    IF ~yara_result.given THEN <<>>
    ELSE AddTargets([i \in 1..Len(yara_result.findings) |->
                        IF EndsWithJs(yara_result.findings[i].file_path)
                        THEN yara_result.findings[i].file_path ELSE <<>>],
                    a.files \ {<<>>}, <<>>)

\* 2. FALLBACK TARGETING: the variations of main, then of browser
EntryTargets(a) ==
    LET potential_mains == (IF a.main # <<>> THEN <<a.main>> ELSE <<>>)
                               \o (IF a.browser # <<>> THEN <<a.browser>> ELSE <<>>)
        entry_files == IF Len(potential_mains) = 0 THEN <<>>
                       ELSE IF Len(potential_mains) = 1
                            THEN Variations(Clean(potential_mains[1]))
                            ELSE Variations(Clean(potential_mains[1]))
                                     \o Variations(Clean(potential_mains[2]))
    IN  IF ~a.has_manifest THEN <<>> ELSE AddTargets(entry_files, a.files, <<>>)

\* analyze_vsix(vsix_path, yara_result): targets[:2], the files analysed
AnalyzeVsixTargets(yara_result, a) ==
    LET smart == SmartTargets(yara_result, a)
        all == IF smart # <<>> THEN smart ELSE EntryTargets(a)
    IN  SubSeq(all, 1, Min(Len(all), MaxTargets))

\* Step 4 of the pipeline: ai.analyze_vsix(vsix_path), called without yara_result
PipelineAiTargets(yara_res, a) == AnalyzeVsixTargets(NoYaraResult, a)

NoArchive == [files |-> {}, has_manifest |-> FALSE, main |-> <<>>, browser |-> <<>>]

(***************************************************************************)
(* ForensicChecker.scan_vsix over the entries of an archive                *)
(*                                                                         *)
(* An entry name is its directory, the sequence of its path segments, and  *)
(* the pieces of its base name between the dots, all in lower case; an     *)
(* entry's magic is what identify_magic makes of its header, or "short"    *)
(* for a header of fewer than four bytes.                                  *)
(***************************************************************************)
SUSPICIOUS_BINARY_TYPES ==
    {"PE/EXE/DLL", "ELF", "Mach-O (32-bit)", "Mach-O (64-bit)", "Mach-O (Universal)"}

\* EXPECTED_TYPES, the extensions with a non-empty set; no entry for the others
EXPECTED_TYPES(ext) ==
    CASE ext = "png" -> {"PNG"}
      [] ext \in {"jpg", "jpeg"} -> {"JPEG"}
      [] ext = "gif" -> {"GIF"}
      [] ext = "bmp" -> {"BMP"}
      [] ext = "webp" -> {"WEBP/AVI/WAV"}
      [] ext = "ico" -> {"PNG", "BMP"}
      [] ext = "pdf" -> {"PDF"}
      [] OTHER -> {}

\* the extensions scan_vsix skips as text by nature
TextExtensions ==
    {"js", "ts", "mjs", "cjs", "map", "json", "md", "txt", "yml", "yaml", "xml",
     "css", "html", "htm", "svg", "lock"}

\* _get_extension(name).lower(), without its dot; "" when the name has no dot
GetFileExtension(name) ==
    IF Len(name.parts) > 1 THEN name.parts[Len(name.parts)] ELSE ""

\* _has_double_extension(name)
HasDoubleExtension(name) ==
    /\ Len(name.parts) >= 3
    /\ name.parts[Len(name.parts)] \in
           {"exe", "dll", "so", "bat", "cmd", "ps1", "sh", "vbs", "js", "py", "rb", "pl"}
    /\ name.parts[Len(name.parts) - 1] \in {"png", "jpg", "gif", "txt", "doc", "pdf"}

\* any(seg in name.lower() for seg in ("node_modules", "bin/", "native/", "prebuilds/"))
InNative(name) ==
    \E i \in 1..Len(name.dir) :
        name.dir[i] \in {"node_modules/", "bin/", "native/", "prebuilds/"}

ForensicFinding(severity, check_name, file_path) ==
    [severity |-> severity, check_name |-> check_name, file_path |-> file_path]

\* the body of the loop over zf.infolist() for one entry: the findings appended
ScanEntry(info) ==
    LET name == info.filename
        ext == GetFileExtension(name)
        detected_type == info.magic
    IN  IF ext \in TextExtensions THEN <<>>
        ELSE IF info.magic = "short" THEN <<>>
        ELSE (IF detected_type \in SUSPICIOUS_BINARY_TYPES
                    /\ ext \notin {"exe", "dll", "so", "dylib"}
              THEN <<ForensicFinding("CRITICAL", "HIDDEN_EXECUTABLE", name)>>
              ELSE IF EXPECTED_TYPES(ext) # {}
                      /\ detected_type # "UNKNOWN"
                      /\ detected_type \notin EXPECTED_TYPES(ext)
                   THEN <<ForensicFinding("HIGH", "MAGIC_MISMATCH", name)>>
                   ELSE <<>>)
             \o (IF detected_type \in SUSPICIOUS_BINARY_TYPES /\ ~InNative(name)
                 THEN <<ForensicFinding("HIGH", "UNEXPECTED_BINARY", name)>>
                 ELSE <<>>)
             \o (IF HasDoubleExtension(name)
                 THEN <<ForensicFinding("MEDIUM", "DOUBLE_EXTENSION", name)>>
                 ELSE <<>>)

RECURSIVE ScanEntries(_)
ScanEntries(infolist) ==
    IF infolist = <<>> THEN <<>>
    ELSE ScanEntry(Head(infolist)) \o ScanEntries(Tail(infolist))

\* the findings of one severity
OfSeverity(findings, severity) ==
    Len(SelectSeq(findings, LAMBDA f : f.severity = severity))

\* ForensicScanResult()
NewForensicScanResult == [findings |-> <<>>, risk_score |-> 0]

\* scan_vsix on a well-formed archive: the findings, then "Calculate risk"
ScanVsixForensics(infolist) ==
    LET findings == ScanEntries(infolist)
    IN  [findings |-> findings,
         risk_score |-> SeverityRiskScore(F(OfSeverity(findings, "CRITICAL"),
                                            OfSeverity(findings, "HIGH"),
                                            OfSeverity(findings, "MEDIUM"), 0))]

(***************************************************************************)
(* _chunk_source: a string is the sequence of its characters               *)
(***************************************************************************)
CHARS_PER_TOKEN == 2
NL == "\n"

\* source.split("\n")
RECURSIVE SplitLines(_)
SplitLines(text) ==
    IF \A i \in 1..Len(text) : text[i] # NL THEN <<text>>
    ELSE LET at == CHOOSE i \in 1..Len(text) :
                       text[i] = NL /\ \A j \in 1..(i - 1) : text[j] # NL
         IN  <<SubSeq(text, 1, at - 1)>> \o SplitLines(SubSeq(text, at + 1, Len(text)))

\* a slicing that leaves a long line whole
SlicesWhole(line, max_chars) == <<line>>

\* line[i:i+max_chars] for i in range(0, len(line), max_chars)
Slices(line, max_chars) ==
    [k \in 1..((Len(line) + max_chars - 1) \div max_chars) |->
        SubSeq(line, (k - 1) * max_chars + 1, Min(k * max_chars, Len(line)))]

\* the loop over the lines and the final flush; current_chunk = <<>> is falsy
RECURSIVE ChunkLines(_, _, _, _)
ChunkLines(lines, current_chunk, done, max_chars) ==
    IF lines = <<>>
    THEN IF current_chunk # <<>> THEN Append(done, current_chunk) ELSE done
    ELSE LET line == Head(lines)
             line_size == Len(line) + 1
             flushed == IF current_chunk # <<>> THEN Append(done, current_chunk) ELSE done
         IN  IF line_size > max_chars
             THEN ChunkLines(Tail(lines), <<>>, flushed \o Slices(line, max_chars), max_chars)
             ELSE IF Len(current_chunk) + line_size > max_chars /\ current_chunk # <<>>
                  THEN ChunkLines(Tail(lines), line, flushed, max_chars)
                  ELSE ChunkLines(Tail(lines),
                                  IF current_chunk # <<>>
                                  THEN current_chunk \o <<NL>> \o line ELSE line,
                                  done, max_chars)

\* _chunk_source(source, max_chunk_tokens)
ChunkSource(text, tokens) ==
    LET max_chars == tokens * CHARS_PER_TOKEN
    IN  IF Len(text) <= max_chars THEN <<text>>
        ELSE ChunkLines(SplitLines(text), <<>>, <<>>, max_chars)

(***************************************************************************)
(* TriagePipeline                                                          *)
(***************************************************************************)
ESCALATION_THRESHOLD == 8000        \* 0.4 as a composite
AUTO_MALICIOUS_THRESHOLD == 16000   \* 0.8 as a composite

\* TriageResult(vsix_path=vsix_path)
NewTriageResult ==
    [metadata_result |-> None, forensic_result |-> None, yara_result |-> None,
     ai_result |-> AiDict("", 0, 0, FALSE),
     metadata_risk |-> 0, forensic_risk |-> 0, yara_risk |-> 0, ai_risk |-> 0,
     composite_risk |-> 0, verdict |-> "UNKNOWN",
     total_findings |-> 0, high_findings |-> 0, critical_findings |-> 0,
     escalate_to_chamber |-> FALSE, escalation_reasons |-> {}]

\* a Step 1 whose except branch sets the risk to 0.0 like Steps 2 to 4
AfterMetadataZero(r, o) ==
    IF o.raised THEN [r EXCEPT !.metadata_risk = 0]
    ELSE [r EXCEPT !.metadata_result = o.res, !.metadata_risk = o.res.risk_score]

\* Step 1: result or, in the except branch, metadata_risk = 0.5
AfterMetadata(r, o) ==
    IF o.raised THEN [r EXCEPT !.metadata_risk = 50]
    ELSE [r EXCEPT !.metadata_result = o.res, !.metadata_risk = o.res.risk_score]

\* Step 2: result or, in the except branch, forensic_risk = 0.0
AfterForensic(r, o) ==
    IF o.raised THEN [r EXCEPT !.forensic_risk = 0]
    ELSE [r EXCEPT !.forensic_result = o.res, !.forensic_risk = o.res.risk_score]

\* Step 3: result or, in the except branch, yara_risk = 0.0
AfterYara(r, o) ==
    IF o.raised THEN [r EXCEPT !.yara_risk = 0]
    ELSE [r EXCEPT !.yara_result = o.res, !.yara_risk = o.res.risk_score]

\* Step 4, skip_ai branch
AfterAiSkipped(r) ==
    [r EXCEPT !.ai_risk = 0, !.ai_result = AiDict("SKIPPED", 0, 0, FALSE)]

\* Step 4: the dict analyze_vsix returned or, in the except branch, ERROR
AfterAi(r, raised, ai_res) ==
    IF raised THEN [r EXCEPT !.ai_risk = 0, !.ai_result = AiDict("ERROR", 0, 0, TRUE)]
    ELSE [r EXCEPT !.ai_result = ai_res, !.ai_risk = ai_res.risk_score]

\* Composite Scoring: the weighted sum, then min(composite_risk, 1.0)
CompositeRisk(r, w) ==
    Min(2 * r.ai_risk * w.ai_vibe
            + (r.metadata_risk + r.forensic_risk) * w.static
            + 2 * r.yara_risk * w.yara
            + 2 * r.metadata_risk * w.metadata,
        COne)

\* Count Findings: over the stage results that are present
AllFindings(r) ==
    LET a == r.metadata_result.findings
        b == r.forensic_result.findings
        c == r.yara_result.findings
    IN  F(a.CRITICAL + b.CRITICAL + c.CRITICAL, a.HIGH + b.HIGH + c.HIGH,
          a.MEDIUM + b.MEDIUM + c.MEDIUM, a.INFO + b.INFO + c.INFO)

\* a Verdict block without the critical_findings branch
TriageVerdictNoCritical(composite_risk, critical_findings) ==
    IF composite_risk >= AUTO_MALICIOUS_THRESHOLD THEN "MALICIOUS"
    ELSE IF composite_risk >= ESCALATION_THRESHOLD THEN "SUSPICIOUS"
    ELSE "CLEAN"

\* Verdict
TriageVerdict(composite_risk, critical_findings) ==
    IF composite_risk >= AUTO_MALICIOUS_THRESHOLD THEN "MALICIOUS"
    ELSE IF composite_risk >= ESCALATION_THRESHOLD THEN "SUSPICIOUS"
    ELSE IF critical_findings > 0 THEN "SUSPICIOUS"
    ELSE "CLEAN"

\* an Escalation Decision that gives no reason for CRITICAL findings
EscalationReasonsNoCritical(r) ==
    IF r.verdict \in {"MALICIOUS", "SUSPICIOUS"}
    THEN (IF r.high_findings >= 3 THEN {"high"} ELSE {})
         \cup (IF r.composite_risk >= ESCALATION_THRESHOLD THEN {"composite"} ELSE {})
         \cup (IF r.ai_result.verdict \in {"MALICIOUS", "SUSPICIOUS"}
               THEN {"ai"} ELSE {})
    ELSE {}

\* Escalation Decision: the reasons appended
EscalationReasons(r) ==
    IF r.verdict \in {"MALICIOUS", "SUSPICIOUS"}
    THEN (IF r.critical_findings > 0 THEN {"critical"} ELSE {})
         \cup (IF r.high_findings >= 3 THEN {"high"} ELSE {})
         \cup (IF r.composite_risk >= ESCALATION_THRESHOLD THEN {"composite"} ELSE {})
         \cup (IF r.ai_result.verdict \in {"MALICIOUS", "SUSPICIOUS"}
               THEN {"ai"} ELSE {})
    ELSE {}

\* lines 183-239 of run: scoring, counting, verdict, escalation
Conclude(r, w) ==
    LET all == AllFindings(r)
        r1 == [r EXCEPT !.composite_risk = CompositeRisk(r, w),
                        !.total_findings = Count(all),
                        !.high_findings = all.HIGH,
                        !.critical_findings = all.CRITICAL]
        r2 == [r1 EXCEPT !.verdict =
                    TriageVerdict(r1.composite_risk, r1.critical_findings)]
    IN  [r2 EXCEPT !.escalate_to_chamber = r2.verdict \in {"MALICIOUS", "SUSPICIOUS"},
                   !.escalation_reasons = EscalationReasons(r2)]

\* __init__: the weights read from config["scoring"], with their defaults
Weights(a, s, y, m) == [ai_vibe |-> a, static |-> s, yara |-> y, metadata |-> m]
DefaultWeights == Weights(35, 25, 25, 15)
\* configurations: the defaults, and weights that do not sum to 1
Configs == {DefaultWeights, Weights(100, 100, 100, 100)}

VsixKinds == {"valid", "unsafe", "badzip", "unreadable"}

(***************************************************************************)
(* ThreatReportGenerator and the tables it reads and writes                *)
(***************************************************************************)
\* __init__: the generator reads the same config["scoring"] keys as the
\* pipeline: behavioral_weight (the pipeline's "yara") and trust_signal_weight
\* (the pipeline's "metadata")
ReportWeights(w) ==
    [ai_vibe |-> w.ai_vibe, static |-> w.static, behavioral |-> w.yara,
     trust |-> w.metadata]

\* rows of the publishers table: id and is_domain_verified
publishers ==
    {[id |-> 1, is_domain_verified |-> TRUE], [id |-> 2, is_domain_verified |-> FALSE]}

\* a row of the extensions table; publisher_id 0 is NULL, average_rating is in
\* tenths of a star
ExtRow(id, extension_id, install_count, average_rating, publisher_id) ==
    [id |-> id, extension_id |-> extension_id, install_count |-> install_count,
     average_rating |-> average_rating, publisher_id |-> publisher_id]

\* db.models.is_blocklisted
IsBlocklisted(bl, extension_id) == extension_id \in bl

\* ThreatReport()
NewThreatReport ==
    [extension_id |-> "", publisher_verified |-> FALSE,
     install_count |-> 0, average_rating |-> 0, is_blocklisted |-> FALSE,
     ai_vibe_score |-> 0, static_analysis_score |-> 0, behavioral_score |-> 0,
     trust_signal_score |-> 0, composite_score |-> 0,
     verdict |-> "UNKNOWN", confidence |-> 0,
     total_findings |-> 0, findings |-> NoFindings,
     campaign_score |-> 0,
     vt_detection_count |-> 0, vt_total_engines |-> 0, vt_known_malicious |-> FALSE,
     escalated_to_chamber |-> FALSE, escalation_reasons |-> {}]

\* _calculate_trust_score
CalculateTrustScore(report) ==
    IF report.is_blocklisted THEN One
    ELSE LET installs ==
                 IF report.install_count >= 1000000 THEN 0 - 30
                 ELSE IF report.install_count >= 100000 THEN 0 - 20
                 ELSE IF report.install_count >= 10000 THEN 0 - 10
                 ELSE IF report.install_count < 100 THEN 15
                 ELSE IF report.install_count < 10 THEN 25
                 ELSE 0
             publisher == IF report.publisher_verified THEN 0 - 15 ELSE 10
             rating ==
                 IF report.average_rating >= 40 THEN 0 - 5
                 ELSE IF report.average_rating < 20 /\ report.average_rating > 0 THEN 10
                 ELSE 0
         IN  Max(0, Min(One, 50 + installs + publisher + rating))

\* _categorize_findings: the severity buckets, as counts
CategorizeFindings(triage_result) == AllFindings(triage_result)

Max3(a, b, c) == Max(a, Max(b, c))

\* a _calculate_composite that adds the VirusTotal boost whatever the
\* malicious flag says
CalculateCompositeAlwaysBoost(report, w) ==
    IF report.is_blocklisted THEN COne
    ELSE Min(2 * report.ai_vibe_score * w.ai_vibe
                + 2 * report.static_analysis_score * w.static
                + 2 * report.behavioral_score * w.behavioral
                + 2 * report.trust_signal_score * w.trust
                + Min(2000 * report.vt_detection_count, 10000)
                + 20 * report.campaign_score,
             COne)

\* _calculate_composite, in 1/20000: vt_boost = min(count / 10, 0.5) is
\* min(2000 * count, 10000) and campaign_score * 0.1 is 20 * campaign_score
CalculateComposite(report, w) ==
    IF report.is_blocklisted THEN COne
    ELSE LET vt_boost == IF report.vt_known_malicious
                         THEN Min(2000 * report.vt_detection_count, 10000)
                         ELSE 0
         IN  Min(2 * report.ai_vibe_score * w.ai_vibe
                    + 2 * report.static_analysis_score * w.static
                    + 2 * report.behavioral_score * w.behavioral
                    + 2 * report.trust_signal_score * w.trust
                    + vt_boost
                    + 20 * report.campaign_score,
                 COne)

\* a _determine_verdict that also answers SUSPICIOUS for any HIGH finding
DetermineVerdictHighFindings(report) ==
    IF report.is_blocklisted THEN "MALICIOUS"
    ELSE IF report.vt_known_malicious /\ report.vt_detection_count >= 5 THEN "MALICIOUS"
    ELSE IF report.composite_score >= 14000 THEN "MALICIOUS"
    ELSE IF report.composite_score >= 7000 THEN "SUSPICIOUS"
    ELSE IF report.findings.CRITICAL > 0 THEN "SUSPICIOUS"
    ELSE IF report.findings.HIGH > 0 THEN "SUSPICIOUS"
    ELSE "CLEAN"
\* a _determine_verdict without the CRITICAL findings branch
DetermineVerdictNoCritical(report) ==
    IF report.is_blocklisted THEN "MALICIOUS"
    ELSE IF report.vt_known_malicious /\ report.vt_detection_count >= 5 THEN "MALICIOUS"
    ELSE IF report.composite_score >= 14000 THEN "MALICIOUS"
    ELSE IF report.composite_score >= 7000 THEN "SUSPICIOUS"
    ELSE "CLEAN"

\* _determine_verdict; 0.7 is 14000 and 0.35 is 7000
DetermineVerdict(report) ==
    IF report.is_blocklisted THEN "MALICIOUS"
    ELSE IF report.vt_known_malicious /\ report.vt_detection_count >= 5 THEN "MALICIOUS"
    ELSE IF report.composite_score >= 14000 THEN "MALICIOUS"
    ELSE IF report.composite_score >= 7000 THEN "SUSPICIOUS"
    ELSE IF report.findings.CRITICAL > 0 THEN "SUSPICIOUS"
    ELSE "CLEAN"

\* a _determine_confidence without the blocklist bonus
DetermineConfidenceNoBlocklist(report) ==
    Min(50 + (IF report.vt_total_engines > 0 THEN 15 ELSE 0)
           + (IF report.ai_vibe_score > 0 THEN 10 ELSE 0)
           + (IF report.behavioral_score > 0 THEN 15 ELSE 0),
        One)

\* _determine_confidence
DetermineConfidence(report) ==
    Min(50 + (IF report.vt_total_engines > 0 THEN 15 ELSE 0)
           + (IF report.ai_vibe_score > 0 THEN 10 ELSE 0)
           + (IF report.behavioral_score > 0 THEN 15 ELSE 0)
           + (IF report.is_blocklisted THEN 30 ELSE 0),
        One)

\* the optional arguments of generate; given = FALSE stands for None
Arg(given, value) == [given |-> given, value |-> value]
Vt(malicious, detection_count, total_engines) ==
    [malicious |-> malicious, detection_count |-> detection_count,
     total_engines |-> total_engines]
Request(extension_db_id, triage_result, vt_result, crossref_result) ==
    [extension_db_id |-> extension_db_id, triage_result |-> triage_result,
     vt_result |-> vt_result, crossref_result |-> crossref_result]
NoTriage == Arg(FALSE, NewTriageResult)
NoVt == Arg(FALSE, Vt(FALSE, 0, 0))
NoCrossref == Arg(FALSE, 0)

\* generate, lines 135-211: the report for request q on tables exts and bl
Generate(exts, bl, w, q) ==
    LET found == {e \in exts : e.id = q.extension_db_id}
    IN  IF found = {} THEN [NewThreatReport EXCEPT !.verdict = "ERROR"]
        ELSE
        LET ext == CHOOSE e \in found : TRUE
            pub == {p \in publishers : p.id = ext.publisher_id}
            r1 == [NewThreatReport EXCEPT
                      !.extension_id = ext.extension_id,
                      !.install_count = ext.install_count,
                      !.average_rating = ext.average_rating,
                      !.publisher_verified =
                          \E p \in pub : p.is_domain_verified,
                      !.is_blocklisted = IsBlocklisted(bl, ext.extension_id)]
            r2 == [r1 EXCEPT !.trust_signal_score = CalculateTrustScore(r1)]
            t == q.triage_result.value
            r3 == IF q.triage_result.given
                  THEN [r2 EXCEPT
                           !.ai_vibe_score = t.ai_risk,
                           !.static_analysis_score =
                               Max3(t.metadata_risk, t.forensic_risk, t.yara_risk),
                           !.escalated_to_chamber = t.escalate_to_chamber,
                           !.escalation_reasons = t.escalation_reasons,
                           !.findings = CategorizeFindings(t),
                           !.total_findings = Count(CategorizeFindings(t))]
                  ELSE r2
            v == q.vt_result.value
            r4 == IF q.vt_result.given
                  THEN [r3 EXCEPT !.vt_detection_count = v.detection_count,
                                  !.vt_total_engines = v.total_engines,
                                  !.vt_known_malicious = v.malicious]
                  ELSE r3
            r5 == IF q.crossref_result.given
                  THEN [r4 EXCEPT !.campaign_score = q.crossref_result.value]
                  ELSE r4
            r6 == [r5 EXCEPT !.composite_score = CalculateComposite(r5, w)]
            r7 == [r6 EXCEPT !.verdict = DetermineVerdict(r6)]
        IN  [r7 EXCEPT !.confidence = DetermineConfidence(r7)]

(***************************************************************************)
(* The database tables (db/models.py) and the archive directory            *)
(***************************************************************************)
MaxHandlers == 2        \* HTTP requests in one behaviour

ExtIds == {"pub.a", "pub.b"}    \* extension_ids; each has the one version "1.0"
NULL == ""                      \* a NULL vsix_hash_sha256
NoRisk == 0 - 1                 \* a NULL risk_score

\* a row of detox_extensions as upsert_extension inserts it
NewExtension(id, extension_id, install_count, average_rating, publisher_id, vsix_hash) ==
    [id |-> id, extension_id |-> extension_id, version |-> "1.0",
     vsix_hash_sha256 |-> vsix_hash,
     install_count |-> install_count, average_rating |-> average_rating,
     publisher_id |-> publisher_id,
     scan_state |-> "QUEUED", latest_state |-> "pending", risk_score |-> NoRisk]

\* get_extension: the rows with this (extension_id, version)
GetExtension(exts, extension_id) == {e \in exts : e.extension_id = extension_id}

\* upsert_extension: INSERT ... ON CONFLICT(extension_id, version) DO UPDATE;
\* sq is the sequence record, the result the new table and sequences
UpsertExtension(exts, sq, extension_id, install_count, average_rating, publisher_db_id, vsix_hash) ==
    IF GetExtension(exts, extension_id) = {}
    THEN [exts |-> exts \cup {NewExtension(sq.extensions, extension_id, install_count,
                                           average_rating, publisher_db_id, vsix_hash)},
          seqs |-> [sq EXCEPT !.extensions = @ + 1]]
    ELSE [exts |-> {IF e.extension_id = extension_id
                    THEN [e EXCEPT
                            !.vsix_hash_sha256 =
                                IF vsix_hash # NULL THEN vsix_hash ELSE @,
                            !.install_count = install_count,
                            !.average_rating = average_rating,
                            !.publisher_id =
                                IF publisher_db_id # 0 THEN publisher_db_id ELSE @]
                    ELSE e : e \in exts},
          seqs |-> sq]

valid_states ==
    {"QUEUED", "DOWNLOADING", "STATIC_SCANNING", "STATIC_COMPLETE",
     "DETONATING", "DETONATION_COMPLETE", "REPORTED",
     "CLEAN", "FLAGGED", "WHITELISTED"}

\* latest_map.get(new_state, "pending")
LatestState(new_state) ==
    CASE new_state \in {"CLEAN", "WHITELISTED"} -> "clean"
      [] new_state = "FLAGGED" -> "flagged"
      [] new_state \in {"STATIC_SCANNING", "DOWNLOADING"} -> "scanning"
      [] new_state = "DETONATING" -> "detonating"
      [] OTHER -> "pending"

\* update_scan_state: ValueError for a state outside valid_states, else the UPDATE
UpdateScanState(exts, extension_db_id, new_state) ==
    IF new_state \notin valid_states
    THEN [raised |-> TRUE, exts |-> exts]
    ELSE [raised |-> FALSE,
          exts |-> {IF e.id = extension_db_id
                    THEN [e EXCEPT !.scan_state = new_state,
                                   !.latest_state = LatestState(new_state)]
                    ELSE e : e \in exts}]

\* detox_scan_history.extension_db_id REFERENCES detox_extensions(id), without an
\* ON DELETE action: an INSERT needs the parent row, a DELETE of a parent row
\* needs that no history row refers to it
\* a schema whose scan_history table lacks the REFERENCES clause
ReferencesUnchecked(exts, extension_db_id) == TRUE
References(exts, extension_db_id) == \E e \in exts : e.id = extension_db_id
Referenced(history, extension_db_id) ==
    \E i \in 1..Len(history) : history[i].extension_db_id = extension_db_id

\* insert_scan_record: the INSERT ... RETURNING id; it raises on a violated
\* foreign key or primary key, and the sequence value is consumed either way
InsertScanRecord(history, sq, exts, extension_db_id, scan_type) ==
    LET scan_id == sq.scan_history
        raised == \/ ~References(exts, extension_db_id)
                  \/ \E i \in 1..Len(history) : history[i].id = scan_id
    IN  [raised |-> raised,
         scan_id |-> scan_id,
         seqs |-> [sq EXCEPT !.scan_history = @ + 1],
         history |->
            IF raised THEN history
            ELSE Append(history,
                   [id |-> scan_id, extension_db_id |-> extension_db_id,
                    scan_type |-> scan_type, completed |-> FALSE, completions |-> 0,
                    ai_vibe_score |-> NoRisk, static_score |-> NoRisk,
                    behavioral_score |-> NoRisk, trust_score |-> NoRisk,
                    composite_score |-> NoRisk,
                    findings |-> NoFindings, verdict |-> ""])]

\* a complete_scan_record whose UPDATE selects the rows by extension instead of
\* by scan id
CompleteScanRecordByExtension(history, scan_id, report) ==
    LET owner == {history[i].extension_db_id : i \in {j \in 1..Len(history) :
                                                        history[j].id = scan_id}}
    IN  [i \in 1..Len(history) |->
            IF history[i].extension_db_id \in owner
            THEN [history[i] EXCEPT
                     !.completed = TRUE, !.completions = @ + 1,
                     !.ai_vibe_score = report.ai_vibe_score,
                     !.static_score = report.static_analysis_score,
                     !.behavioral_score = report.behavioral_score,
                     !.trust_score = report.trust_signal_score,
                     !.composite_score = report.composite_score,
                     !.findings = report.findings, !.verdict = report.verdict]
            ELSE history[i]]
\* complete_scan_record: the UPDATE ... WHERE id = scan_id, with the scores and
\* findings_json _save_scan_record passes; completions counts the UPDATEs a
\* row has received
CompleteScanRecord(history, scan_id, report) ==
    [i \in 1..Len(history) |->
        IF history[i].id = scan_id
        THEN [history[i] EXCEPT
                 !.completed = TRUE, !.completions = @ + 1,
                 !.ai_vibe_score = report.ai_vibe_score,
                 !.static_score = report.static_analysis_score,
                 !.behavioral_score = report.behavioral_score,
                 !.trust_score = report.trust_signal_score,
                 !.composite_score = report.composite_score,
                 !.findings = report.findings, !.verdict = report.verdict]
        ELSE history[i]]

\* _save_scan_record: insert_scan_record then complete_scan_record; an
\* exception of the INSERT leaves _save_scan_record before the UPDATE
SaveScanRecord(history, sq, exts, extension_db_id, report) ==
    LET ins == InsertScanRecord(history, sq, exts, extension_db_id, "UNIFIED_REPORT")
    IN  [raised |-> ins.raised,
         seqs |-> ins.seqs,
         history |-> IF ins.raised THEN history
                     ELSE CompleteScanRecord(ins.history, ins.scan_id, report)]

ForensicIdle == entries = <<>> /\ forensic = NewForensicScanResult /\ scanned = FALSE

ChunkIdle == source = <<>> /\ max_chunk_tokens = 1 /\ chunks = <<>> /\ chunked = FALSE

AiIdle ==
    /\ aiPlan = <<>>
    /\ aiOut = FallbackResponse
    /\ aiDone = FALSE
    /\ archive = NoArchive
    /\ rule_hits = <<>>
    /\ targets = <<>>
    /\ ChunkIdle
ReportIdle ==
    /\ gen_weights = ReportWeights(DefaultWeights)
    /\ extensions = {}
    /\ blocklist = {}
    /\ scan_history = <<>>
    /\ req = Request(0, NoTriage, NoVt, NoCrossref)
    /\ reports = <<>>
NoHandler ==
    [kind |-> "idle", pc |-> "idle", ext |-> "", force |-> FALSE, db_id |-> 0,
     queue |-> <<>>, downloaded |-> <<>>, served |-> "none", response |-> 0,
     scan_id |-> 0, report |-> NewThreatReport, raised |-> FALSE, returned |-> FALSE,
     killed |-> FALSE]
ApiIdle ==
    /\ STOP_SIGNAL = FALSE
    /\ vsix_dir = [x \in ExtIds |-> "absent"]
    /\ seqs = [extensions |-> 1, scan_history |-> 1]
    /\ handlers = [h \in 1..MaxHandlers |-> NoHandler]

InitTriage ==
    /\ weights \in Configs
    /\ skip_ai \in BOOLEAN
    /\ vsix \in VsixKinds
    /\ cbGiven \in BOOLEAN
    /\ pc = "call"
    /\ result = NewTriageResult
    /\ calls = <<>>
    /\ raisedIn = {}
    /\ AiIdle
    /\ ForensicIdle
    /\ ReportIdle
    /\ ApiIdle

\* triage_vsix(vsix_path, config, skip_ai): the signature has no
\* pre_ai_callback parameter, so a call that passes one raises TypeError
\* before TriagePipeline is constructed
TriageCall ==
    /\ pc = "call"
    /\ pc' = IF cbGiven THEN "raised" ELSE "metadata"
    /\ UNCHANGED <<weights, skip_ai, vsix, cbGiven, result, calls, raisedIn>>
    /\ UNCHANGED aiVars
    /\ UNCHANGED forensicVars
    /\ UNCHANGED reportVars
    /\ UNCHANGED apiVars

\* run, Step 1
StageMetadata ==
    /\ pc = "metadata"
    /\ \E o \in MetadataOutcomes(vsix) :
        /\ result' = AfterMetadata(result, o)
        /\ raisedIn' = IF o.raised THEN raisedIn \cup {"metadata"} ELSE raisedIn
    /\ calls' = Append(calls, "metadata")
    /\ pc' = "forensic"
    /\ UNCHANGED <<weights, skip_ai, vsix, cbGiven>>
    /\ UNCHANGED aiVars
    /\ UNCHANGED forensicVars
    /\ UNCHANGED reportVars
    /\ UNCHANGED apiVars

\* run, Step 2
StageForensic ==
    /\ pc = "forensic"
    /\ \E o \in ForensicOutcomes(vsix) :
        /\ result' = AfterForensic(result, o)
        /\ raisedIn' = IF o.raised THEN raisedIn \cup {"forensic"} ELSE raisedIn
    /\ calls' = Append(calls, "forensic")
    /\ pc' = "yara"
    /\ UNCHANGED <<weights, skip_ai, vsix, cbGiven>>
    /\ UNCHANGED aiVars
    /\ UNCHANGED forensicVars
    /\ UNCHANGED reportVars
    /\ UNCHANGED apiVars

\* run, Step 3
StageYara ==
    /\ pc = "yara"
    /\ \E o \in YaraOutcomes(vsix) :
        /\ result' = AfterYara(result, o)
        /\ raisedIn' = IF o.raised THEN raisedIn \cup {"yara"} ELSE raisedIn
    /\ calls' = Append(calls, "yara")
    /\ pc' = "ai"
    /\ UNCHANGED <<weights, skip_ai, vsix, cbGiven>>
    /\ UNCHANGED aiVars
    /\ UNCHANGED forensicVars
    /\ UNCHANGED reportVars
    /\ UNCHANGED apiVars

\* run, Step 4 skipped, then scoring to return
StageAiSkipped ==
    /\ pc = "ai"
    /\ skip_ai
    /\ result' = Conclude(AfterAiSkipped(result), weights)
    /\ pc' = "done"
    /\ UNCHANGED <<weights, skip_ai, vsix, cbGiven, calls, raisedIn>>
    /\ UNCHANGED aiVars
    /\ UNCHANGED forensicVars
    /\ UNCHANGED reportVars
    /\ UNCHANGED apiVars

\* run, Step 4, then scoring to return.  AIVibeChecker(self.config) raises when
\* the prompt or config file cannot be read; analyze_vsix itself never raises.
StageAi ==
    /\ pc = "ai"
    /\ ~skip_ai
    /\ \/ /\ result' = Conclude(AfterAi(result, TRUE, FallbackResponse), weights)
          /\ raisedIn' = raisedIn \cup {"ai"}
       \/ /\ \E ai_res \in (IF vsix \in Readable THEN AiResultsValid
                            ELSE {AnalyzeVsix(vsix, <<>>)}) :
                result' = Conclude(AfterAi(result, FALSE, ai_res), weights)
          /\ UNCHANGED raisedIn
    /\ calls' = Append(calls, "ai")
    /\ pc' = "done"
    /\ UNCHANGED <<weights, skip_ai, vsix, cbGiven>>
    /\ UNCHANGED aiVars
    /\ UNCHANGED forensicVars
    /\ UNCHANGED reportVars
    /\ UNCHANGED apiVars

NextTriage ==
    \/ TriageCall
    \/ StageMetadata
    \/ StageForensic
    \/ StageYara
    \/ StageAiSkipped
    \/ StageAi

SpecTriage == InitTriage /\ [][NextTriage]_vars

(***************************************************************************)
(* AIVibeChecker.analyze_vsix on its own (SpecAI)                          *)
(***************************************************************************)
TriageIdle ==
    /\ weights = DefaultWeights
    /\ skip_ai = FALSE
    /\ cbGiven = FALSE
    /\ pc = "idle"
    /\ result = NewTriageResult
    /\ calls = <<>>
    /\ raisedIn = {}

InitAI ==
    /\ vsix \in VsixKinds
    /\ aiPlan \in Plans
    /\ vsix \notin Readable => aiPlan = <<>>
    /\ aiOut = FallbackResponse
    /\ aiDone = FALSE
    /\ archive = NoArchive
    /\ rule_hits = <<>>
    /\ targets = <<>>
    /\ ChunkIdle
    /\ ForensicIdle
    /\ TriageIdle
    /\ ReportIdle
    /\ ApiIdle

\* analyze_vsix(vsix_path): one request per chunk of each target, then the merge
AiAnalyzeVsix ==
    /\ ~aiDone
    /\ pc = "idle"
    /\ aiOut' = AnalyzeVsix(vsix, aiPlan)
    /\ aiDone' = TRUE
    /\ UNCHANGED <<aiPlan, archive, rule_hits, targets>>
    /\ UNCHANGED chunkVars
    /\ UNCHANGED forensicVars
    /\ UNCHANGED triageVars
    /\ UNCHANGED reportVars
    /\ UNCHANGED apiVars

NextAI == AiAnalyzeVsix

SpecAI == InitAI /\ [][NextAI]_vars

(***************************************************************************)
(* Steps 3 and 4 of the pipeline over the entries of one archive           *)
(* (SpecTargets)                                                           *)
(***************************************************************************)
\* the entries an archive can hold besides its manifest
ArchiveFiles ==
    {<<"extension/", "main", ".js">>, <<"main", ".js">>,
     <<"extension/", "web", ".js">>, <<"extension/", "lib", ".js">>}

Archives ==
    {[files |-> fs, has_manifest |-> TRUE, main |-> mn, browser |-> br] :
        fs \in SUBSET ArchiveFiles,
        mn \in {<<>>, <<"./", "main">>, <<"main", ".js">>},
        br \in {<<>>, <<"web">>}}

\* the findings the rule scan can make in an archive: one per line of a file it holds
RuleFindings(a) ==
    {<<>>} \cup {<<[file_path |-> f, severity |-> sv]>> :
                    f \in a.files, sv \in {"CRITICAL", "MEDIUM"}}
           \cup {<<[file_path |-> f, severity |-> "MEDIUM"],
                   [file_path |-> g, severity |-> "CRITICAL"]>> :
                    f \in a.files, g \in a.files}

InitTargets ==
    /\ archive \in Archives
    /\ rule_hits = <<>>
    /\ targets = <<>>
    /\ ChunkIdle
    /\ ForensicIdle
    /\ aiPlan = <<>>
    /\ aiOut = FallbackResponse
    /\ aiDone = FALSE
    /\ weights = DefaultWeights
    /\ skip_ai = FALSE
    /\ cbGiven = FALSE
    /\ vsix = "valid"
    /\ pc = "yara"
    /\ result = NewTriageResult
    /\ calls = <<>>
    /\ raisedIn = {}
    /\ ReportIdle
    /\ ApiIdle

\* Step 3: yara.scan_vsix(vsix_path) returns its findings
RuleScan ==
    /\ pc = "yara"
    /\ rule_hits' \in RuleFindings(archive)
    /\ pc' = "ai"
    /\ calls' = Append(calls, "yara")
    /\ UNCHANGED <<weights, skip_ai, vsix, cbGiven, result, raisedIn>>
    /\ UNCHANGED <<aiPlan, aiOut, aiDone, archive, targets>>
    /\ UNCHANGED chunkVars
    /\ UNCHANGED forensicVars
    /\ UNCHANGED reportVars
    /\ UNCHANGED apiVars

\* Step 4: ai.analyze_vsix(vsix_path) picks its files; the service answers
\* CLEAN for each of them
AiSelectTargets ==
    /\ pc = "ai"
    /\ LET picked == PipelineAiTargets(YaraResult(rule_hits), archive)
           plan == [t \in 1..Len(picked) |-> <<Reply("json", "CLEAN", 0, 90)>>]
       IN  /\ targets' = picked
           /\ aiPlan' = plan
           /\ aiOut' = AnalyzeVsix(vsix, plan)
    /\ aiDone' = TRUE
    /\ pc' = "done"
    /\ calls' = Append(calls, "ai")
    /\ UNCHANGED <<weights, skip_ai, vsix, cbGiven, result, raisedIn>>
    /\ UNCHANGED <<archive, rule_hits>>
    /\ UNCHANGED chunkVars
    /\ UNCHANGED forensicVars
    /\ UNCHANGED reportVars
    /\ UNCHANGED apiVars

NextTargets == RuleScan \/ AiSelectTargets

SpecTargets == InitTargets /\ [][NextTargets]_vars

(***************************************************************************)
(* _chunk_source over small sources (SpecChunks)                           *)
(***************************************************************************)
MaxLines == 4
MaxChunkTokens == 2

\* the lines a source is made of: empty, short, and longer than a budget
LineSamples ==
    {<<>>, <<"a">>, <<"a", "b">>, <<"a", "b", "c">>, <<"a", "b", "c", "d", "e">>}

\* "\n".join(lines)
RECURSIVE JoinLines(_)
JoinLines(lines) ==
    IF Len(lines) = 1 THEN lines[1]
    ELSE lines[1] \o <<NL>> \o JoinLines(Tail(lines))

Sources == {JoinLines(ls) : ls \in SeqsUpTo(LineSamples, MaxLines)}

InitChunks ==
    /\ source \in Sources
    /\ max_chunk_tokens \in 1..MaxChunkTokens
    /\ chunks = <<>>
    /\ chunked = FALSE
    /\ vsix = "valid"
    /\ aiPlan = <<>>
    /\ aiOut = FallbackResponse
    /\ aiDone = FALSE
    /\ archive = NoArchive
    /\ rule_hits = <<>>
    /\ targets = <<>>
    /\ ForensicIdle
    /\ TriageIdle
    /\ ReportIdle
    /\ ApiIdle

\* chunks = self._chunk_source(source, max_chunk_tokens)
ChunkSourceCall ==
    /\ ~chunked
    /\ pc = "idle"
    /\ chunks' = ChunkSource(source, max_chunk_tokens)
    /\ chunked' = TRUE
    /\ UNCHANGED <<source, max_chunk_tokens>>
    /\ UNCHANGED <<aiPlan, aiOut, aiDone, archive, rule_hits, targets>>
    /\ UNCHANGED forensicVars
    /\ UNCHANGED triageVars
    /\ UNCHANGED reportVars
    /\ UNCHANGED apiVars

NextChunks == ChunkSourceCall

SpecChunks == InitChunks /\ [][NextChunks]_vars

(***************************************************************************)
(* ForensicChecker.scan_vsix over small archives (SpecForensic)            *)
(***************************************************************************)
MaxEntries == 2

EntryDirs ==
    {<<"assets/">>, <<"node_modules/", "pkg/">>, <<"extension/", "bin/">>,
     <<"native/">>, <<"prebuilds/">>}
EntryParts ==
    {<<"addon", "node">>, <<"tool", "exe">>, <<"logo", "png">>,
     <<"logo", "png", "exe">>, <<"index", "js">>}
EntryMagics == {"ELF", "PNG"}

Entries ==
    {[filename |-> [dir |-> d, parts |-> ps], magic |-> mg] :
        d \in EntryDirs, ps \in EntryParts, mg \in EntryMagics}

InitForensic ==
    /\ entries \in SeqsUpTo(Entries, MaxEntries)
    /\ \A i, j \in 1..Len(entries) : i # j => entries[i].filename # entries[j].filename
    /\ forensic = NewForensicScanResult
    /\ scanned = FALSE
    /\ vsix = "valid"
    /\ AiIdle
    /\ TriageIdle
    /\ ReportIdle
    /\ ApiIdle

\* forensic_res = forensic.scan_vsix(vsix_path)
ScanVsixCall ==
    /\ ~scanned
    /\ pc = "idle"
    /\ forensic' = ScanVsixForensics(entries)
    /\ scanned' = TRUE
    /\ UNCHANGED entries
    /\ UNCHANGED aiVars
    /\ UNCHANGED triageVars
    /\ UNCHANGED reportVars
    /\ UNCHANGED apiVars

NextForensic == ScanVsixCall

SpecForensic == InitForensic /\ [][NextForensic]_vars

(***************************************************************************)
(* ThreatReportGenerator.generate over the database (SpecReport)           *)
(***************************************************************************)
\* TriageResults a finished run hands to generate, scored with weights w
TriageSamples(w) ==
    {Conclude(AfterAi(AfterYara(AfterForensic(AfterMetadata(NewTriageResult, mo),
                                              fo), yo), FALSE, ai), w) :
        mo \in {Raised, Returned(F(1, 0, 0, 0), One), Returned(NoFindings, 0)},
        fo \in {Returned(NoFindings, 0),
                Returned(F(1, 0, 0, 0), SeverityRiskScore(F(1, 0, 0, 0)))},
        yo \in {Returned(NoFindings, 0),
                Returned(F(0, 2, 0, 0), SeverityRiskScore(F(0, 2, 0, 0)))},
        ai \in {FallbackResponse} \cup {CallAi(r) : r \in JsonReplies}}

VtSamples == {NoVt, Arg(TRUE, Vt(TRUE, 3, 70)), Arg(TRUE, Vt(TRUE, 7, 70)),
              Arg(TRUE, Vt(FALSE, 3, 70))}
CrossrefSamples == {NoCrossref, Arg(TRUE, 40), Arg(TRUE, 100)}
InstallCounts == {5, 50, 20000, 2000000}
Ratings == {0, 15, 45}

InitReport ==
    /\ weights \in Configs
    /\ gen_weights = ReportWeights(weights)
    /\ extensions \in {{ExtRow(1, "pub.ext", ic, ar, pid)} :
                          ic \in InstallCounts, ar \in Ratings, pid \in {0, 1, 2}}
    /\ blocklist \in {{}, {"pub.ext"}}
    /\ scan_history = <<>>
    /\ req \in {Request(1, t, v, c) :
                    t \in {NoTriage} \cup {Arg(TRUE, x) : x \in TriageSamples(weights)},
                    v \in VtSamples, c \in CrossrefSamples}
               \cup {Request(2, NoTriage, NoVt, NoCrossref)}
    /\ reports = <<>>
    /\ skip_ai = FALSE
    /\ cbGiven = FALSE
    /\ vsix = "valid"
    /\ pc = "idle"
    /\ result = NewTriageResult
    /\ calls = <<>>
    /\ raisedIn = {}
    /\ AiIdle
    /\ ForensicIdle
    /\ ApiIdle

\* generate(extension_db_id, triage_result, vt_result, crossref_result): an
\* unknown id returns the ERROR report before _save_scan_record
GenerateReport ==
    /\ pc = "idle"
    /\ Len(reports) < MaxReports
    /\ LET rep == Generate(extensions, blocklist, gen_weights, req)
           saved == SaveScanRecord(scan_history, seqs, extensions,
                                   req.extension_db_id, rep)
       IN  /\ reports' = Append(reports, rep)
           /\ IF \E e \in extensions : e.id = req.extension_db_id
              THEN scan_history' = saved.history /\ seqs' = saved.seqs
              ELSE UNCHANGED <<scan_history, seqs>>
    /\ UNCHANGED <<gen_weights, extensions, blocklist, req>>
    /\ UNCHANGED triageVars
    /\ UNCHANGED aiVars
    /\ UNCHANGED forensicVars
    /\ UNCHANGED <<STOP_SIGNAL, vsix_dir, handlers>>

\* db.models.upsert_blocklist_entry for an extension_id not yet listed
BlocklistAdd ==
    /\ pc = "idle"
    /\ extensions # {}
    /\ \E id \in {e.extension_id : e \in extensions} \ blocklist :
            blocklist' = blocklist \cup {id}
    /\ UNCHANGED <<gen_weights, extensions, scan_history, req, reports>>
    /\ UNCHANGED triageVars
    /\ UNCHANGED aiVars
    /\ UNCHANGED forensicVars
    /\ UNCHANGED apiVars

NextReport ==
    \/ GenerateReport
    \/ BlocklistAdd

SpecReport == InitReport /\ [][NextReport]_vars

(***************************************************************************)
(* The HTTP API (api.py) with the scraper it drives (SpecScan).  A handler *)
(* runs on the event loop without interruption up to its next await.       *)
(***************************************************************************)
\* what the marketplace serves for a download: the request fails, or a body
\* arrives whose size is under the cap, over it by the Content-Length header,
\* or over it only while streaming
Served ==
    {[size |-> s, content |-> c] :
        s \in {"error", "small", "declared_big", "streamed_big"},
        c \in {"c1", "c2"}}

\* hash_file_sha256
HashFile(content) == CASE content = "c1" -> "h1" [] content = "c2" -> "h2"

\* download_vsix for an extension_id of the publisher.name form: the new table
\* and directory, whether a path is returned, and the size class of the response
\* it received ("none" when the file was already there)
DownloadVsix(exts, files, extension_id, allow_heavyweight, served) ==
    IF files[extension_id] # "absent"
    THEN [path |-> TRUE, exts |-> exts, files |-> files, served |-> "none"]
    ELSE
    LET ext_row == GetExtension(exts, extension_id)
        row_id == (CHOOSE e \in ext_row : TRUE).id
        exts1 == IF ext_row # {}
                 THEN UpdateScanState(exts, row_id, "DOWNLOADING").exts
                 ELSE exts
        flagged == UpdateScanState(exts1, row_id, "HEAVYWEIGHT")
    IN  IF served.size = "error"
        THEN [path |-> FALSE, exts |-> exts1, files |-> files, served |-> served.size]
        ELSE IF served.size \in {"declared_big", "streamed_big"} /\ ~allow_heavyweight
        THEN \* a ValueError of update_scan_state is caught at line 480
             [path |-> FALSE,
              exts |-> IF ext_row # {} /\ ~flagged.raised THEN flagged.exts ELSE exts1,
              files |-> files, served |-> served.size]
        ELSE [path |-> TRUE,
              exts |-> {IF e \in ext_row
                        THEN [e EXCEPT !.vsix_hash_sha256 = HashFile(served.content)]
                        ELSE e : e \in exts1},
              files |-> [files EXCEPT ![extension_id] = served.content],
              served |-> served.size]

\* the parameters of triage_vsix; a call with any other keyword raises TypeError
triage_vsix_params == {"vsix_path", "config", "skip_ai"}
TriageVsixRaises(kwargs) == kwargs \ triage_vsix_params # {}

\* the keywords scan_extension and scan_pending pass to triage_vsix
ApiTriageKwargs == {"vsix_path", "config", "pre_ai_callback"}

\* step 7 of scan_extension: the state for a final verdict
FinalState(final_verdict) ==
    IF final_verdict \in {"SUSPICIOUS", "MALICIOUS"} THEN "FLAGGED" ELSE "CLEAN"

\* steps 6 and 7: the report of a returned triage result, the history row and
\* the row's final state and risk_score
Finalize(exts, history, sq, bl, ext_db_id, triage_result) ==
    LET report == Generate(exts, bl, ReportWeights(DefaultWeights),
                           Request(ext_db_id, Arg(TRUE, triage_result), NoVt, NoCrossref))
        saved == SaveScanRecord(history, sq, exts, ext_db_id, report)
        us == UpdateScanState(exts, ext_db_id, FinalState(report.verdict))
    IN  [history |-> saved.history,
         seqs |-> saved.seqs,
         exts |-> {IF e.id = ext_db_id
                   THEN [e EXCEPT !.risk_score = report.composite_score]
                   ELSE e : e \in us.exts}]

\* the marketplace metadata of every extension
MetaInstallCount == 50
MetaAverageRating == 45
MetaPublisher == 1

Handler(kind, at, ext, force) ==
    [NoHandler EXCEPT !.kind = kind, !.pc = at, !.ext = ext, !.force = force]

InitScan ==
    /\ TriageIdle
    /\ vsix = "valid"
    /\ AiIdle
    /\ ForensicIdle
    /\ gen_weights = ReportWeights(DefaultWeights)
    /\ extensions = {}
    /\ blocklist \in {{}, {"pub.b"}}
    /\ scan_history = <<>>
    /\ req = Request(0, NoTriage, NoVt, NoCrossref)
    /\ reports = <<>>
    /\ ApiIdle

\* POST /scan, lines 53-112: everything before the await of triage_vsix
ScanExtension(h) ==
    /\ handlers[h].pc = "idle"
    /\ \E x \in ExtIds, force \in BOOLEAN, found \in BOOLEAN, served \in Served :
        IF ~found
        THEN /\ handlers' = [handlers EXCEPT
                                ![h] = [Handler("scan", "done", x, force)
                                            EXCEPT !.response = 404]]
             /\ UNCHANGED <<extensions, seqs, vsix_dir>>
        ELSE
        LET up == UpsertExtension(extensions, seqs, x, MetaInstallCount,
                                  MetaAverageRating, MetaPublisher, NULL)
            dl == DownloadVsix(up.exts, vsix_dir, x, force, served)
            ext_row == GetExtension(dl.exts, x)
            ext_db_id == IF ext_row = {} THEN 0 ELSE (CHOOSE e \in ext_row : TRUE).id
        IN  /\ seqs' = up.seqs
            /\ vsix_dir' = dl.files
            /\ IF ~dl.path
               THEN /\ extensions' = dl.exts
                    /\ handlers' = [handlers EXCEPT
                           ![h] = [Handler("scan", "done", x, force) EXCEPT
                                      !.served = dl.served,
                                      !.response =
                                          IF \E e \in ext_row : e.scan_state = "HEAVYWEIGHT"
                                          THEN 413 ELSE 500]]
               ELSE /\ extensions' =
                           IF ext_db_id # 0
                           THEN UpdateScanState(dl.exts, ext_db_id, "STATIC_SCANNING").exts
                           ELSE dl.exts
                    /\ handlers' = [handlers EXCEPT
                           ![h] = [Handler("scan", "triage", x, force) EXCEPT
                                      !.served = dl.served,
                                      !.db_id = ext_db_id]]
    /\ UNCHANGED <<STOP_SIGNAL, gen_weights, blocklist, scan_history, req, reports>>
    /\ UNCHANGED triageVars
    /\ UNCHANGED aiVars
    /\ UNCHANGED forensicVars

\* POST /scan, lines 131-178: the call of triage_vsix and what follows it; the
\* TypeError of the call reaches the handler's except Exception
ScanExtensionTriage(h) ==
    /\ handlers[h].kind = "scan"
    /\ handlers[h].pc = "triage"
    /\ IF TriageVsixRaises(ApiTriageKwargs)
       THEN /\ handlers' = [handlers EXCEPT ![h].pc = "done", ![h].response = 500]
            /\ UNCHANGED <<extensions, scan_history, seqs>>
       ELSE \E t \in TriageSamples(DefaultWeights) :
                LET fin == Finalize(extensions, scan_history, seqs, blocklist,
                                    handlers[h].db_id, t)
                IN  /\ extensions' = fin.exts
                    /\ scan_history' = fin.history
                    /\ seqs' = fin.seqs
                    /\ handlers' = [handlers EXCEPT ![h].pc = "done",
                                                    ![h].response = 200]
    /\ UNCHANGED <<STOP_SIGNAL, vsix_dir, gen_weights, blocklist, req, reports>>
    /\ UNCHANGED triageVars
    /\ UNCHANGED aiVars
    /\ UNCHANGED forensicVars

\* POST /scrape, lines 190-211: the reset of STOP_SIGNAL; queue holds the
\* pages the marketplace will return, one extension on each
ScrapeMarketplace(h) ==
    /\ handlers[h].pc = "idle"
    /\ STOP_SIGNAL' = FALSE
    /\ \E pages \in SeqsUpTo(ExtIds, 2) :
           handlers' = [handlers EXCEPT
                           ![h] = [Handler("scrape", "page", "", FALSE) EXCEPT
                                      !.queue = pages]]
    /\ UNCHANGED <<vsix_dir, seqs>>
    /\ UNCHANGED reportVars
    /\ UNCHANGED triageVars
    /\ UNCHANGED aiVars
    /\ UNCHANGED forensicVars

\* one turn of the page loop of discover_and_store
DiscoverAndStore(h) ==
    /\ handlers[h].kind = "scrape"
    /\ handlers[h].pc = "page"
    /\ IF STOP_SIGNAL \/ handlers[h].queue = <<>>
       THEN /\ handlers' = [handlers EXCEPT ![h].pc = "done", ![h].response = 200]
            /\ UNCHANGED <<extensions, seqs>>
       ELSE LET ext_id == Head(handlers[h].queue)
                up == UpsertExtension(extensions, seqs, ext_id, MetaInstallCount,
                                      MetaAverageRating, MetaPublisher, NULL)
            IN  /\ handlers' = [handlers EXCEPT ![h].queue = Tail(@)]
                /\ IF IsBlocklisted(blocklist, ext_id)
                   THEN UNCHANGED <<extensions, seqs>>
                   ELSE extensions' = up.exts /\ seqs' = up.seqs
    /\ UNCHANGED <<STOP_SIGNAL, vsix_dir, gen_weights, blocklist, scan_history,
                   req, reports>>
    /\ UNCHANGED triageVars
    /\ UNCHANGED aiVars
    /\ UNCHANGED forensicVars

\* POST /scan-pending, lines 235-248: the reset of STOP_SIGNAL
ScanPending(h) ==
    /\ handlers[h].pc = "idle"
    /\ STOP_SIGNAL' = FALSE
    /\ handlers' = [handlers EXCEPT ![h] = Handler("pending", "select", "", FALSE)]
    /\ UNCHANGED <<vsix_dir, seqs>>
    /\ UNCHANGED reportVars
    /\ UNCHANGED triageVars
    /\ UNCHANGED aiVars
    /\ UNCHANGED forensicVars

\* the orders in which a SELECT may return the members of s
Orders(s) ==
    IF s = {} THEN {<<>>}
    ELSE {q \in [1..Cardinality(s) -> s] : \A x \in s : \E i \in 1..Len(q) : q[i] = x}

\* download_queued, lines 499-505: the rows in QUEUED state
DownloadQueuedSelect(h) ==
    /\ handlers[h].kind = "pending"
    /\ handlers[h].pc = "select"
    /\ \E rows \in Orders({e.extension_id : e \in {r \in extensions :
                                                      r.scan_state = "QUEUED"}}) :
           handlers' = [handlers EXCEPT
                           ![h].queue = rows,
                           ![h].pc = IF rows = <<>> THEN "loop" ELSE "download"]
    /\ UNCHANGED <<STOP_SIGNAL, vsix_dir, seqs>>
    /\ UNCHANGED reportVars
    /\ UNCHANGED triageVars
    /\ UNCHANGED aiVars
    /\ UNCHANGED forensicVars

\* download_queued, lines 508-516: one turn of the loop over the rows
DownloadQueuedRow(h) ==
    /\ handlers[h].kind = "pending"
    /\ handlers[h].pc = "download"
    /\ \E served \in Served :
        LET x == Head(handlers[h].queue)
            dl == DownloadVsix(extensions, vsix_dir, x, FALSE, served)
        IN  /\ extensions' = dl.exts
            /\ vsix_dir' = dl.files
            /\ handlers' = [handlers EXCEPT
                   ![h].queue = Tail(@),
                   ![h].served = dl.served,
                   ![h].downloaded = IF dl.path THEN Append(@, x) ELSE @,
                   ![h].pc = IF Tail(handlers[h].queue) = <<>> THEN "loop"
                             ELSE "download"]
    /\ UNCHANGED <<STOP_SIGNAL, seqs, gen_weights, blocklist, scan_history, req, reports>>
    /\ UNCHANGED triageVars
    /\ UNCHANGED aiVars
    /\ UNCHANGED forensicVars

\* POST /scan-pending, lines 251-264: the head of the loop over the downloaded
\* extensions
ScanPendingNext(h) ==
    /\ handlers[h].kind = "pending"
    /\ handlers[h].pc = "loop"
    /\ IF handlers[h].downloaded = <<>> \/ STOP_SIGNAL
       THEN /\ handlers' = [handlers EXCEPT ![h].pc = "done", ![h].response = 200]
            /\ UNCHANGED extensions
       ELSE LET x == Head(handlers[h].downloaded)
                ext_row == GetExtension(extensions, x)
                ext_db_id == IF ext_row = {} THEN 0
                             ELSE (CHOOSE e \in ext_row : TRUE).id
            IN  /\ extensions' =
                       IF ext_db_id # 0
                       THEN UpdateScanState(extensions, ext_db_id, "STATIC_SCANNING").exts
                       ELSE extensions
                /\ handlers' = [handlers EXCEPT ![h].pc = "triage", ![h].ext = x,
                                                ![h].db_id = ext_db_id]
    /\ UNCHANGED <<STOP_SIGNAL, vsix_dir, seqs, gen_weights, blocklist, scan_history,
                   req, reports>>
    /\ UNCHANGED triageVars
    /\ UNCHANGED aiVars
    /\ UNCHANGED forensicVars

\* POST /scan-pending, lines 280-314: the call of triage_vsix and what follows
\* it; the TypeError of the call is caught at line 312 and the loop goes on
ScanPendingTriage(h) ==
    /\ handlers[h].kind = "pending"
    /\ handlers[h].pc = "triage"
    /\ IF TriageVsixRaises(ApiTriageKwargs)
       THEN UNCHANGED <<extensions, scan_history, seqs>>
       ELSE \E t \in TriageSamples(DefaultWeights) :
                LET fin == Finalize(extensions, scan_history, seqs, blocklist,
                                    handlers[h].db_id, t)
                IN  /\ extensions' = fin.exts
                    /\ scan_history' = fin.history
                    /\ seqs' = fin.seqs
    /\ handlers' = [handlers EXCEPT ![h].pc = "loop", ![h].downloaded = Tail(@)]
    /\ UNCHANGED <<STOP_SIGNAL, vsix_dir, gen_weights, blocklist, req, reports>>
    /\ UNCHANGED triageVars
    /\ UNCHANGED aiVars
    /\ UNCHANGED forensicVars

\* POST /kill; killed records the batch operations that were running when it
\* was issued
KillProcessing ==
    /\ STOP_SIGNAL' = TRUE
    /\ handlers' = [h \in 1..MaxHandlers |->
                       IF /\ handlers[h].kind \in {"scrape", "pending"}
                          /\ handlers[h].pc \notin {"idle", "done"}
                       THEN [handlers[h] EXCEPT !.killed = TRUE]
                       ELSE handlers[h]]
    /\ UNCHANGED <<vsix_dir, seqs>>
    /\ UNCHANGED reportVars
    /\ UNCHANGED triageVars
    /\ UNCHANGED aiVars
    /\ UNCHANGED forensicVars

NextScan ==
    \/ \E h \in 1..MaxHandlers : ScanExtension(h)
    \/ \E h \in 1..MaxHandlers : ScanExtensionTriage(h)
    \/ \E h \in 1..MaxHandlers : ScrapeMarketplace(h)
    \/ \E h \in 1..MaxHandlers : DiscoverAndStore(h)
    \/ \E h \in 1..MaxHandlers : ScanPending(h)
    \/ \E h \in 1..MaxHandlers : DownloadQueuedSelect(h)
    \/ \E h \in 1..MaxHandlers : DownloadQueuedRow(h)
    \/ \E h \in 1..MaxHandlers : ScanPendingNext(h)
    \/ \E h \in 1..MaxHandlers : ScanPendingTriage(h)
    \/ KillProcessing

SpecScan == InitScan /\ [][NextScan]_vars

(***************************************************************************)
(* The statements of generate, of the purge handlers and of                *)
(* upsert_extension on the shared autocommit connection (SpecDb).  generate *)
(* runs in the thread pool, so its statements interleave with the others.  *)
(***************************************************************************)
DbIds == {1, 2}                         \* the row ids requests name

InitDb ==
    /\ TriageIdle
    /\ vsix = "valid"
    /\ AiIdle
    /\ ForensicIdle
    /\ ReportIdle
    /\ ApiIdle

\* upsert_extension as scan_extension and discover_and_store call it: one
\* statement; an INSERT whose id is already taken raises and changes only the
\* sequence
DbUpsert ==
    /\ \E x \in ExtIds :
        LET up == UpsertExtension(extensions, seqs, x, MetaInstallCount,
                                  MetaAverageRating, MetaPublisher, NULL)
        IN  IF GetExtension(extensions, x) = {}
               /\ \E e \in extensions : e.id = seqs.extensions
            THEN extensions' = extensions /\ seqs' = up.seqs
            ELSE extensions' = up.exts /\ seqs' = up.seqs
    /\ UNCHANGED <<STOP_SIGNAL, vsix_dir, handlers>>
    /\ UNCHANGED <<gen_weights, blocklist, scan_history, req, reports>>
    /\ UNCHANGED triageVars
    /\ UNCHANGED aiVars
    /\ UNCHANGED forensicVars

\* generate, lines 135-211: the SELECT of the extension row and the report
\* computed from it; an unknown id returns the ERROR report
GenerateSelect(h) ==
    /\ handlers[h].pc = "idle"
    /\ \E id \in DbIds :
        LET report == Generate(extensions, blocklist, gen_weights,
                               Request(id, NoTriage, NoVt, NoCrossref))
            call == [Handler("generate", "insert", "", FALSE) EXCEPT
                        !.db_id = id, !.report = report]
        IN  handlers' = [handlers EXCEPT
                ![h] = IF \E e \in extensions : e.id = id THEN call
                       ELSE [call EXCEPT !.pc = "done", !.returned = TRUE]]
    /\ UNCHANGED <<STOP_SIGNAL, vsix_dir, seqs>>
    /\ UNCHANGED reportVars
    /\ UNCHANGED triageVars
    /\ UNCHANGED aiVars
    /\ UNCHANGED forensicVars

\* _save_scan_record, line 358: insert_scan_record; its exception leaves
\* generate without a return value
GenerateInsert(h) ==
    /\ handlers[h].kind = "generate"
    /\ handlers[h].pc = "insert"
    /\ LET ins == InsertScanRecord(scan_history, seqs, extensions,
                                   handlers[h].db_id, "UNIFIED_REPORT")
       IN  /\ scan_history' = ins.history
           /\ seqs' = ins.seqs
           /\ handlers' = [handlers EXCEPT
                  ![h].pc = IF ins.raised THEN "done" ELSE "complete",
                  ![h].raised = ins.raised,
                  ![h].scan_id = ins.scan_id]
    /\ UNCHANGED <<STOP_SIGNAL, vsix_dir>>
    /\ UNCHANGED <<gen_weights, extensions, blocklist, req, reports>>
    /\ UNCHANGED triageVars
    /\ UNCHANGED aiVars
    /\ UNCHANGED forensicVars

\* _save_scan_record, lines 359-374, and the return of generate
GenerateComplete(h) ==
    /\ handlers[h].kind = "generate"
    /\ handlers[h].pc = "complete"
    /\ scan_history' = CompleteScanRecord(scan_history, handlers[h].scan_id,
                                          handlers[h].report)
    /\ handlers' = [handlers EXCEPT ![h].pc = "done", ![h].returned = TRUE]
    /\ UNCHANGED <<STOP_SIGNAL, vsix_dir, seqs>>
    /\ UNCHANGED <<gen_weights, extensions, blocklist, req, reports>>
    /\ UNCHANGED triageVars
    /\ UNCHANGED aiVars
    /\ UNCHANGED forensicVars

\* DELETE /purge/{ext_id}, lines 408-414: the SELECT of the row, 404 without it
PurgeExtensionSelect(h) ==
    /\ handlers[h].pc = "idle"
    /\ \E ext_id \in DbIds :
        LET row == {e \in extensions : e.id = ext_id}
        IN  handlers' = [handlers EXCEPT
                ![h] = IF row = {}
                       THEN [Handler("purge", "done", "", FALSE) EXCEPT
                                !.db_id = ext_id, !.response = 404]
                       ELSE [Handler("purge", "delete_history",
                                     (CHOOSE e \in row : TRUE).extension_id, FALSE)
                                EXCEPT !.db_id = ext_id]]
    /\ UNCHANGED <<STOP_SIGNAL, vsix_dir, seqs>>
    /\ UNCHANGED reportVars
    /\ UNCHANGED triageVars
    /\ UNCHANGED aiVars
    /\ UNCHANGED forensicVars

\* DELETE /purge/{ext_id}, line 417
PurgeExtensionHistory(h) ==
    /\ handlers[h].kind = "purge"
    /\ handlers[h].pc = "delete_history"
    /\ scan_history' = SelectSeq(scan_history,
                                 LAMBDA r : r.extension_db_id # handlers[h].db_id)
    /\ handlers' = [handlers EXCEPT ![h].pc = "delete_row"]
    /\ UNCHANGED <<STOP_SIGNAL, vsix_dir, seqs>>
    /\ UNCHANGED <<gen_weights, extensions, blocklist, req, reports>>
    /\ UNCHANGED triageVars
    /\ UNCHANGED aiVars
    /\ UNCHANGED forensicVars

\* DELETE /purge/{ext_id}, lines 420-436: the DELETE of the row, which raises
\* while a history row refers to it, then the removal of the file
PurgeExtensionRow(h) ==
    /\ handlers[h].kind = "purge"
    /\ handlers[h].pc = "delete_row"
    /\ IF Referenced(scan_history, handlers[h].db_id)
       THEN /\ handlers' = [handlers EXCEPT ![h].pc = "done", ![h].raised = TRUE,
                                            ![h].response = 500]
            /\ UNCHANGED <<extensions, vsix_dir>>
       ELSE /\ extensions' = {e \in extensions : e.id # handlers[h].db_id}
            /\ vsix_dir' = [vsix_dir EXCEPT ![handlers[h].ext] = "absent"]
            /\ handlers' = [handlers EXCEPT ![h].pc = "done", ![h].response = 200]
    /\ UNCHANGED <<STOP_SIGNAL, seqs>>
    /\ UNCHANGED <<gen_weights, blocklist, scan_history, req, reports>>
    /\ UNCHANGED triageVars
    /\ UNCHANGED aiVars
    /\ UNCHANGED forensicVars

\* DELETE /purge/all, line 361
PurgeAllHistory(h) ==
    /\ handlers[h].pc = "idle"
    /\ scan_history' = <<>>
    /\ handlers' = [handlers EXCEPT
                       ![h] = Handler("purge_all", "delete_extensions", "", FALSE)]
    /\ UNCHANGED <<STOP_SIGNAL, vsix_dir, seqs>>
    /\ UNCHANGED <<gen_weights, extensions, blocklist, req, reports>>
    /\ UNCHANGED triageVars
    /\ UNCHANGED aiVars
    /\ UNCHANGED forensicVars

\* DELETE /purge/all, line 364: it raises while a history row refers to an
\* extension row
PurgeAllExtensions(h) ==
    /\ handlers[h].kind = "purge_all"
    /\ handlers[h].pc = "delete_extensions"
    /\ IF \E e \in extensions : Referenced(scan_history, e.id)
       THEN /\ handlers' = [handlers EXCEPT ![h].pc = "done", ![h].raised = TRUE,
                                            ![h].response = 500]
            /\ UNCHANGED extensions
       ELSE /\ extensions' = {}
            /\ handlers' = [handlers EXCEPT ![h].pc = "delete_publishers"]
    /\ UNCHANGED <<STOP_SIGNAL, vsix_dir, seqs>>
    /\ UNCHANGED <<gen_weights, blocklist, scan_history, req, reports>>
    /\ UNCHANGED triageVars
    /\ UNCHANGED aiVars
    /\ UNCHANGED forensicVars

\* DELETE /purge/all, lines 367-389: the DELETE of the publishers, which raises
\* while an extension row refers to one, then the sequences and the files
PurgeAllRestart(h) ==
    /\ handlers[h].kind = "purge_all"
    /\ handlers[h].pc = "delete_publishers"
    /\ IF \E e \in extensions : e.publisher_id # 0
       THEN /\ handlers' = [handlers EXCEPT ![h].pc = "done", ![h].raised = TRUE,
                                            ![h].response = 500]
            /\ UNCHANGED <<seqs, vsix_dir>>
       ELSE /\ seqs' = [extensions |-> 1, scan_history |-> 1]
            /\ vsix_dir' = [x \in ExtIds |-> "absent"]
            /\ handlers' = [handlers EXCEPT ![h].pc = "done", ![h].response = 200]
    /\ UNCHANGED STOP_SIGNAL
    /\ UNCHANGED reportVars
    /\ UNCHANGED triageVars
    /\ UNCHANGED aiVars
    /\ UNCHANGED forensicVars

NextDb ==
    \/ DbUpsert
    \/ \E h \in 1..MaxHandlers : GenerateSelect(h)
    \/ \E h \in 1..MaxHandlers : GenerateInsert(h)
    \/ \E h \in 1..MaxHandlers : GenerateComplete(h)
    \/ \E h \in 1..MaxHandlers : PurgeExtensionSelect(h)
    \/ \E h \in 1..MaxHandlers : PurgeExtensionHistory(h)
    \/ \E h \in 1..MaxHandlers : PurgeExtensionRow(h)
    \/ \E h \in 1..MaxHandlers : PurgeAllHistory(h)
    \/ \E h \in 1..MaxHandlers : PurgeAllExtensions(h)
    \/ \E h \in 1..MaxHandlers : PurgeAllRestart(h)

SpecDb == InitDb /\ [][NextDb]_vars

(***************************************************************************)
(* Sequences of upsert_extension and download_vsix calls (SpecHash)        *)
(***************************************************************************)
Hashes == {NULL, "h1", "h2"}            \* the vsix_hash arguments of upsert_extension

\* upsert_extension(conn, extension_id, version, vsix_hash=...)
UpsertExtensionCall ==
    /\ \E x \in ExtIds, vsix_hash \in Hashes :
        LET up == UpsertExtension(extensions, seqs, x, MetaInstallCount,
                                  MetaAverageRating, MetaPublisher, vsix_hash)
        IN  extensions' = up.exts /\ seqs' = up.seqs
    /\ UNCHANGED <<STOP_SIGNAL, vsix_dir, handlers>>
    /\ UNCHANGED <<gen_weights, blocklist, scan_history, req, reports>>
    /\ UNCHANGED triageVars
    /\ UNCHANGED aiVars
    /\ UNCHANGED forensicVars

\* download_vsix(extension_id, version, allow_heavyweight)
DownloadVsixCall ==
    /\ \E x \in ExtIds, allow_heavyweight \in BOOLEAN, served \in Served :
        LET dl == DownloadVsix(extensions, vsix_dir, x, allow_heavyweight, served)
        IN  extensions' = dl.exts /\ vsix_dir' = dl.files
    /\ UNCHANGED <<STOP_SIGNAL, seqs, handlers>>
    /\ UNCHANGED <<gen_weights, blocklist, scan_history, req, reports>>
    /\ UNCHANGED triageVars
    /\ UNCHANGED aiVars
    /\ UNCHANGED forensicVars

NextHash ==
    \/ UpsertExtensionCall
    \/ DownloadVsixCall

SpecHash == InitDb /\ [][NextHash]_vars

(***************************************************************************)
(* generate called with one request after another on the same tables       *)
(* (SpecVerdicts), to compare the reports of different inputs              *)
(***************************************************************************)
\* the requests: no triage result, or one of a run whose metadata stage raised
\* and whose AI stage fell back, with and without a VirusTotal result of 7
\* detections
VerdictRequests(w) ==
    {Request(1, t, v, NoCrossref) :
        t \in {NoTriage} \cup
              {Arg(TRUE, x) : x \in {y \in TriageSamples(w) :
                                        /\ y.ai_result.error
                                        /\ ~y.metadata_result.present}},
        v \in {NoVt, Arg(TRUE, Vt(TRUE, 7, 70))}}

InitVerdicts ==
    /\ weights = DefaultWeights
    /\ gen_weights = ReportWeights(weights)
    /\ extensions \in {{ExtRow(1, "pub.ext", ic, 45, 1)} : ic \in {50, 2000000}}
    /\ blocklist = {}
    /\ scan_history = <<>>
    /\ req \in VerdictRequests(weights)
    /\ reports = <<>>
    /\ skip_ai = FALSE
    /\ cbGiven = FALSE
    /\ vsix = "valid"
    /\ pc = "idle"
    /\ result = NewTriageResult
    /\ calls = <<>>
    /\ raisedIn = {}
    /\ AiIdle
    /\ ForensicIdle
    /\ ApiIdle

\* the caller's next generate call carries other arguments
NextRequest ==
    /\ pc = "idle"
    /\ Len(reports) >= 1
    /\ Len(reports) < MaxReports
    /\ req' \in VerdictRequests(weights) \ {req}
    /\ UNCHANGED <<gen_weights, extensions, blocklist, scan_history, reports>>
    /\ UNCHANGED triageVars
    /\ UNCHANGED aiVars
    /\ UNCHANGED forensicVars
    /\ UNCHANGED apiVars

NextVerdicts ==
    \/ GenerateReport
    \/ BlocklistAdd
    \/ NextRequest

SpecVerdicts == InitVerdicts /\ [][NextVerdicts]_vars

(***************************************************************************)
(* Properties of the triage pipeline (SpecTriage)                          *)
(***************************************************************************)
VerdictCodes == {"CLEAN", "SUSPICIOUS", "MALICIOUS", "HEAVYWEIGHT", "UNKNOWN"}
Rank(v) == CASE v = "MALICIOUS" -> 2 [] v = "SUSPICIOUS" -> 1 [] OTHER -> 0

\* C1: for every archive, configuration and AI risk_score, the result triage
\* returns has a composite_risk within [0, 1] and a verdict among the five
\* verdict codes.
C1_CompositeInUnitRange ==
    pc = "done" =>
        /\ result.composite_risk >= 0
        /\ result.composite_risk <= COne
        /\ result.verdict \in VerdictCodes

\* C2: when triage is called with a pre_ai_callback, the callback is invoked
\* exactly once, after RuleEngine and before the AIAnalyzer.
C2_CallbackOnceBeforeAI ==
    (cbGiven /\ pc \in {"raised", "done"}) =>
        \E i \in 1..Len(calls) :
            /\ calls[i] = "callback"
            /\ \A j \in 1..Len(calls) : calls[j] = "callback" => j = i
            /\ \E j \in 1..(i - 1) : calls[j] = "yara"
            /\ \A j \in 1..Len(calls) : calls[j] = "ai" => j > i

\* the stages run invokes, in order
StagesInvoked == IF skip_ai THEN <<"metadata", "forensic", "yara">>
                 ELSE <<"metadata", "forensic", "yara", "ai">>

C7_TriageVerdictRule ==
    pc = "done" =>
        /\ result.critical_findings =
                result.metadata_result.findings.CRITICAL
                + result.forensic_result.findings.CRITICAL
                + result.yara_result.findings.CRITICAL
        /\ result.composite_risk <= 20000
        /\ result.verdict =
                IF result.composite_risk >= 16000 THEN "MALICIOUS"
                ELSE IF result.composite_risk >= 8000 THEN "SUSPICIOUS"
                ELSE IF result.critical_findings > 0 THEN "SUSPICIOUS"
                ELSE "CLEAN"

\* C7 witness: a CRITICAL finding lifts a composite below 0.4 to SUSPICIOUS
C7_Witness ==
    /\ pc = "done"
    /\ result.composite_risk < 8000
    /\ result.critical_findings > 0
    /\ result.verdict = "SUSPICIOUS"

\* C10: when the archive cannot be opened as a ZIP, ManifestScanner reports a
\* CRITICAL finding with risk 1.0, the remaining stages are still attempted,
\* and the verdict is at least SUSPICIOUS whatever the AIAnalyzer does.
C10_UnopenableArchiveAtLeastSuspicious ==
    (pc = "done" /\ vsix \in {"badzip", "unreadable"}) =>
        /\ result.metadata_result.present
        /\ result.metadata_result.findings.CRITICAL >= 1
        /\ result.metadata_risk = 100
        /\ calls = StagesInvoked
        /\ Rank(result.verdict) >= 1

\* C11: when the archive has an entry with an absolute or ".." path or a
\* declared size over 500 MiB, triage reports a CRITICAL finding and runs
\* neither ForensicChecker nor RuleEngine nor the AIAnalyzer on it.
C11_UnsafeArchiveShortCircuits ==
    (pc = "done" /\ vsix = "unsafe") =>
        /\ result.metadata_result.present
        /\ result.metadata_result.findings.CRITICAL >= 1
        /\ result.critical_findings >= 1
        /\ \A i \in 1..Len(calls) : calls[i] \notin {"forensic", "yara", "ai"}

(***************************************************************************)
(* Properties of the AI check (SpecAI)                                     *)
(***************************************************************************)
\* the archive has one target that fits one chunk, so analyze_vsix returns
\* what the single _call_ai returned
SingleRequest ==
    aiDone /\ vsix \in Readable /\ Len(aiPlan) = 1 /\ Len(aiPlan[1]) = 1

\* C8 as stated: no AI failure raises to the caller; a connection error, a
\* read timeout without usable content, an HTTP 4xx/5xx and malformed content
\* each give risk_score 0.5, confidence 0, verdict UNKNOWN.
C8_EveryFailureIsUnknown ==
    (SingleRequest /\ aiPlan[1][1].kind \in FailureKinds) =>
        /\ aiOut.risk_score = 50
        /\ aiOut.confidence = 0
        /\ aiOut.verdict = "UNKNOWN"

\* C8 amended: no AI failure raises to the caller; a connection error, a
\* request timeout and an HTTP 4xx/5xx give risk_score 0.5, confidence 0,
\* verdict UNKNOWN, while a read timeout without usable content and content
\* that is not JSON give risk_score 0.5, confidence 0.3, verdict SUSPICIOUS.
C8_FailureResults ==
    SingleRequest =>
        LET k == aiPlan[1][1].kind
        IN  /\ k \in {"connection_error", "timeout", "http_error"} =>
                    /\ aiOut.risk_score = 50
                    /\ aiOut.confidence = 0
                    /\ aiOut.verdict = "UNKNOWN"
                    /\ aiOut.error
            /\ k \in {"read_timeout", "non_json"} =>
                    /\ aiOut.risk_score = 50
                    /\ aiOut.confidence = 30
                    /\ aiOut.verdict = "SUSPICIOUS"
                    /\ ~aiOut.error

\* C8 witness: the one request was answered with text that is not JSON
C8_Witness ==
    /\ SingleRequest
    /\ aiPlan[1][1].kind = "non_json"
    /\ aiOut.verdict = "SUSPICIOUS"
    /\ aiOut.confidence = 30

\* every request of the plan failed: each per-chunk result is the fallback
AllRequestsFailed ==
    /\ aiPlan # <<>>
    /\ \A t \in 1..Len(aiPlan) : \A i \in 1..Len(aiPlan[t]) :
            aiPlan[t][i].kind \in {"connection_error", "timeout", "http_error"}

\* C9: when every AI request fails, the aggregated ai_result has verdict
\* UNKNOWN, never CLEAN, for one chunk, several chunks and several files.
C9_AllFailedIsUnknown ==
    (aiDone /\ vsix \in Readable /\ AllRequestsFailed) =>
        /\ aiOut.verdict = "UNKNOWN"
        /\ aiOut.verdict # "CLEAN"

(***************************************************************************)
(* Properties of the threat report (SpecReport)                            *)
(***************************************************************************)
\* the extensions row generate loads for the request, if there is one
RequestedRows == {e \in extensions : e.id = req.extension_db_id}

\* C4: a report for an existing extension whose id is on the blocklist has
\* verdict MALICIOUS, composite exactly 1.0 and confidence at least 0.8, and
\* no report made before the id was listed has a higher verdict.
C4_BlocklistedIsMalicious ==
    [][(reports' # reports /\ \E e \in RequestedRows : e.extension_id \in blocklist) =>
            LET rep == reports'[Len(reports')]
            IN  /\ rep.verdict = "MALICIOUS"
                /\ rep.composite_score = 20000
                /\ rep.confidence >= 80
                /\ \A i \in 1..Len(reports) : Rank(rep.verdict) >= Rank(reports[i].verdict)]_vars

\* C4 witness: a CLEAN report, then the id is blocklisted, then a MALICIOUS one
C4_Witness ==
    /\ Len(reports) = 2
    /\ reports[1].verdict = "CLEAN"
    /\ ~reports[1].is_blocklisted
    /\ \E e \in RequestedRows : e.extension_id \in blocklist
    /\ reports[2].verdict = "MALICIOUS"
    /\ reports[2].composite_score = 20000

\* the reports of existing extensions made while the id was not blocklisted
Unlisted(i) == reports[i].verdict # "ERROR" /\ ~reports[i].is_blocklisted

\* the inputs of the request, with the defaults of absent arguments
ReqDetections == IF req.vt_result.given THEN req.vt_result.value.detection_count ELSE 0
ReqMalicious == req.vt_result.given /\ req.vt_result.value.malicious
ReqCampaign == IF req.crossref_result.given THEN req.crossref_result.value ELSE 0
ReqTriageComposite ==
    IF req.triage_result.given THEN req.triage_result.value.composite_risk ELSE 0
ReqAiRisk == IF req.triage_result.given THEN req.triage_result.value.ai_risk ELSE 0
ReqStaticRisk ==
    IF req.triage_result.given
    THEN Max3(req.triage_result.value.metadata_risk,
              req.triage_result.value.forensic_risk,
              req.triage_result.value.yara_risk)
    ELSE 0
ReqCritical ==
    IF req.triage_result.given
    THEN req.triage_result.value.metadata_result.findings.CRITICAL
         + req.triage_result.value.forensic_result.findings.CRITICAL
         + req.triage_result.value.yara_result.findings.CRITICAL
    ELSE 0

\* C5 as stated: for an extension not on the blocklist the final composite is
\* min(1.0, triage composite_risk + min(detections / 10, 0.5)
\*          + 0.1 * campaign_score).
C5_CompositeIsTriagePlusBonuses ==
    \A i \in 1..Len(reports) : (Unlisted(i) /\ req.triage_result.given) =>
        reports[i].composite_score =
            Min(20000, ReqTriageComposite + Min(2000 * ReqDetections, 10000)
                       + 20 * ReqCampaign)

\* C5 amended: for an extension not on the blocklist the final composite is
\* min(1.0, ai_risk * ai_vibe_weight
\*          + max(metadata_risk, forensic_risk, yara_risk) * static_analysis_weight
\*          + trust_signal_score * trust_signal_weight
\*          + min(detections / 10, 0.5) if the reputation result is flagged
\*            malicious, else 0
\*          + 0.1 * campaign_score); the behavioural score is 0.
C5_CompositeIsReweighted ==
    \A i \in 1..Len(reports) : Unlisted(i) =>
        /\ reports[i].behavioral_score = 0
        /\ reports[i].composite_score =
            Min(20000,
                2 * ReqAiRisk * gen_weights.ai_vibe
                + 2 * ReqStaticRisk * gen_weights.static
                + 2 * reports[i].trust_signal_score * gen_weights.trust
                + (IF ReqMalicious THEN Min(2000 * ReqDetections, 10000) ELSE 0)
                + 20 * ReqCampaign)

\* C5 witness: triage result, detections flagged malicious and a campaign
\* score all given, and the composite stays under the cap
C5_Witness ==
    /\ Len(reports) >= 1
    /\ Unlisted(1)
    /\ req.triage_result.given
    /\ ReqMalicious /\ ReqDetections > 0
    /\ ReqCampaign > 0
    /\ reports[1].composite_score > 0
    /\ reports[1].composite_score < 20000

\* C6: for an extension not on the blocklist the verdict is MALICIOUS if the
\* reputation result is malicious with at least 5 detections or the
\* composite is at least 0.7; otherwise SUSPICIOUS if the composite is at
\* least 0.35 or there is a CRITICAL finding; otherwise CLEAN.
C6_ReportVerdictRule ==
    \A i \in 1..Len(reports) : Unlisted(i) =>
        reports[i].verdict =
            IF (ReqMalicious /\ ReqDetections >= 5)
                \/ reports[i].composite_score >= 14000 THEN "MALICIOUS"
            ELSE IF reports[i].composite_score >= 7000 \/ ReqCritical >= 1
                 THEN "SUSPICIOUS"
            ELSE "CLEAN"

\* C6 witness: a composite under 0.35 with a CRITICAL finding is SUSPICIOUS
C6_Witness ==
    /\ Len(reports) >= 1
    /\ Unlisted(1)
    /\ reports[1].composite_score < 7000
    /\ ReqCritical >= 1
    /\ reports[1].verdict = "SUSPICIOUS"

\* C15: every generate call for an existing extension appends one scan_history
\* row with an id no earlier row has, completed by exactly one completion
\* write, leaves the earlier rows as they were (so two calls with the same
\* inputs give two distinct rows, each completed once) and leaves the
\* extensions table unchanged.
C15_EachCallAppendsOneRow ==
    [][(reports' # reports /\ RequestedRows # {}) =>
          /\ extensions' = extensions
          /\ Len(scan_history') = Len(scan_history) + 1
          /\ \A i \in 1..Len(scan_history) :
                 /\ scan_history'[i] = scan_history[i]
                 /\ scan_history[i].id # scan_history'[Len(scan_history')].id
          /\ scan_history'[Len(scan_history')].extension_db_id = req.extension_db_id
          /\ scan_history'[Len(scan_history')].completed
          /\ scan_history'[Len(scan_history')].completions = 1]_vars

\* generate has been called twice with the same arguments and the table holds
\* two rows with different ids
C15_Witness ==
    /\ Len(reports) = 2
    /\ Len(scan_history) = 2
    /\ scan_history[1].id # scan_history[2].id
    /\ scan_history[1].completions = 1
    /\ scan_history[2].completions = 1

\* the install adjustment: minus 0.3, 0.2, 0.1 from a million, a hundred
\* thousand, ten thousand installs; plus 0.25 below 10 and plus 0.15 from 10 to 99
InstallAdjustment(install_count) ==
    IF install_count >= 1000000 THEN 0 - 30
    ELSE IF install_count >= 100000 THEN 0 - 20
    ELSE IF install_count >= 10000 THEN 0 - 10
    ELSE IF install_count < 10 THEN 25
    ELSE IF install_count < 100 THEN 15
    ELSE 0

\* C26: the trust score of an extension not on the blocklist is 0.5 plus the
\* install adjustment (+0.25 below 10 installs, +0.15 from 10 to 99, -0.3, -0.2,
\* -0.1 from 1,000,000, 100,000, 10,000), then the publisher adjustment (-0.15
\* verified, +0.1 not) and the rating adjustment (-0.05 from 4.0, +0.1 below 2.0
\* and above 0), clamped to [0, 1].
C26_TrustScoreAdjustments ==
    \A i \in 1..Len(reports) : Unlisted(i) =>
        reports[i].trust_signal_score =
            Max(0, Min(One, 50 + InstallAdjustment(reports[i].install_count)
                            + (IF reports[i].publisher_verified THEN 0 - 15 ELSE 10)
                            + (IF reports[i].average_rating >= 40 THEN 0 - 5
                               ELSE IF reports[i].average_rating < 20
                                       /\ reports[i].average_rating > 0 THEN 10
                               ELSE 0)))

\* C28: in every TriageResult a run returns, escalate_to_chamber is true
\* exactly when the verdict is SUSPICIOUS or MALICIOUS, and escalation_reasons
\* is non-empty when it is true and empty when it is false.
C28_EscalationMatchesVerdict ==
    pc = "done" =>
        /\ result.escalate_to_chamber <=> result.verdict \in {"SUSPICIOUS", "MALICIOUS"}
        /\ result.escalate_to_chamber => result.escalation_reasons # {}
        /\ ~result.escalate_to_chamber => result.escalation_reasons = {}

\* C28 witness: a run that ends SUSPICIOUS below the escalation threshold, on
\* its CRITICAL finding alone
C28_Witness ==
    /\ pc = "done"
    /\ result.verdict = "SUSPICIOUS"
    /\ result.composite_risk < ESCALATION_THRESHOLD
    /\ result.escalate_to_chamber
    /\ result.escalation_reasons = {"critical"}

\* a finished run on a valid archive with the default weights in which the
\* manifest, forensic and rule stages returned without a finding (scenario S1)
CleanArchiveRun ==
    /\ pc = "done"
    /\ vsix = "valid"
    /\ weights = DefaultWeights
    /\ ~skip_ai
    /\ raisedIn = {}
    /\ result.metadata_result.present /\ result.metadata_risk = 0
    /\ result.forensic_result.present
    /\ result.yara_result.present
    /\ AllFindings(result) = NoFindings

\* the AI stage of the run answered CLEAN with risk 0, or returned its fallback
AiCleanAnswer == result.ai_result.verdict = "CLEAN" /\ result.ai_risk = 0
AiFellBack == result.ai_result = FallbackResponse

\* C22 as stated: triage of the clean archive returns CLEAN with composite at
\* most 0.05 and no CRITICAL or HIGH finding, also when the AI stage returns
\* its fallback result.
C22_CleanArchiveComposite ==
    (CleanArchiveRun /\ (AiCleanAnswer \/ AiFellBack)) =>
        /\ result.verdict = "CLEAN"
        /\ result.composite_risk <= 1000
        /\ result.critical_findings = 0
        /\ result.high_findings = 0

(***************************************************************************)
(* Properties of the HTTP API (SpecScan)                                   *)
(***************************************************************************)
\* handler h is the only request made so far
OnlyRequest(h) == \A g \in 1..MaxHandlers : g # h => handlers[g].pc = "idle"

\* the download of handler h went over the 20 MiB cap without the opt-in
Oversize(h) ==
    /\ handlers[h].served \in {"declared_big", "streamed_big"}
    /\ ~handlers[h].force

\* C12: when the download of a /scan request exceeds the 20 MiB cap, by the
\* declared Content-Length or while streaming, and the caller has not opted
\* in, the row's scan_state is HEAVYWEIGHT from then on in that scan, the
\* request is answered 413 and triage is never started for the package.
C12_OversizeIsHeavyweight ==
    \A h \in 1..MaxHandlers :
        (handlers[h].kind = "scan" /\ Oversize(h) /\ OnlyRequest(h)) =>
            /\ handlers[h].pc = "done"
            /\ handlers[h].response = 413
            /\ \A e \in GetExtension(extensions, handlers[h].ext) :
                    e.scan_state = "HEAVYWEIGHT"
            /\ GetExtension(extensions, handlers[h].ext) # {}

\* the /scan request of handler h got as far as marking its row
\* STATIC_SCANNING and has been answered
ScanOver(h) ==
    /\ handlers[h].kind = "scan"
    /\ handlers[h].pc = "done"
    /\ handlers[h].db_id # 0
    /\ OnlyRequest(h)

\* the scan_history rows of extension row id, in insertion order
HistoryOf(id) == SelectSeq(scan_history, LAMBDA r : r.extension_db_id = id)

\* C16: after a scan of an existing extension row completes, the row's
\* scan_state is FLAGGED when the final report's verdict is SUSPICIOUS or
\* MALICIOUS and CLEAN otherwise, and its risk_score is the final report's
\* composite score.
C16_FinalStateFollowsVerdict ==
    \A h \in 1..MaxHandlers :
        ScanOver(h) =>
            \A e \in extensions :
                e.id = handlers[h].db_id =>
                    LET rows == HistoryOf(e.id)
                    IN  /\ rows # <<>>
                        /\ e.scan_state = FinalState(rows[Len(rows)].verdict)
                        /\ e.risk_score = rows[Len(rows)].composite_score

\* C19: a scan run with the pre-AI callback on an existing row leaves two
\* distinct scan_history rows, the intermediate one written by the callback
\* and the final one carrying the final verdict, the first not touched by the
\* second write.
C19_IntermediateAndFinalRows ==
    \A h \in 1..MaxHandlers :
        ScanOver(h) =>
            LET rows == HistoryOf(handlers[h].db_id)
            IN  /\ Len(rows) = 2
                /\ rows[1].id # rows[2].id
                /\ rows[1].completions = 1
                /\ rows[2].completions = 1

\* the running batch loop of handler h starts on a new package in this step:
\* a row of download_queued, a page of discover_and_store, or the triage of
\* the next downloaded extension of scan_pending
StartsPackage(h) ==
    \/ /\ handlers[h].pc \in {"download", "page"}
       /\ handlers'[h].queue # handlers[h].queue
    \/ /\ handlers[h].pc = "loop"
       /\ handlers'[h].pc = "triage"

\* C18: while the stop predicate is set, no running batch loop starts a new
\* package and no triage begins.
C18_StopStartsNothing ==
    [][(STOP_SIGNAL /\ STOP_SIGNAL') =>
          \A h \in 1..MaxHandlers : ~StartsPackage(h)]_vars

\* handler h writes the scan_state of the row of extension x in this step
WritesScanState(h, x) ==
    /\ handlers[h].pc = "idle"
    /\ handlers'[h].kind = "scan"
    /\ handlers'[h].ext = x
    /\ handlers'[h].served # "none" \/ handlers'[h].pc = "triage"

\* C20: after one /scan request has written STATIC_SCANNING for a row and
\* while its triage is under way, no other /scan request writes that row's
\* scan_state.
C20_ScansDoNotInterleave ==
    [][\A a, b \in 1..MaxHandlers :
          (/\ a # b
           /\ handlers[a].kind = "scan"
           /\ handlers[a].pc = "triage"
           /\ handlers[a].db_id # 0) =>
              ~WritesScanState(b, handlers[a].ext)]_vars

\* the triage await of handler h ends in this step: the scan of its row is over
FinishesScan(h) ==
    /\ handlers[h].pc = "triage"
    /\ handlers'[h].pc # "triage"
    /\ handlers[h].db_id # 0

\* C29: a scan whose row /scan or /scan-pending has set to STATIC_SCANNING
\* ends with the row's scan_state CLEAN or FLAGGED, provided no stop was
\* asked for: when the scan's triage step ends, the row is in a final state.
C29_ScanReachesFinalState ==
    [][\A h \in 1..MaxHandlers :
          (FinishesScan(h) /\ ~STOP_SIGNAL /\ ~handlers[h].killed) =>
              \E e \in extensions' :
                  /\ e.id = handlers[h].db_id
                  /\ e.scan_state \in {"CLEAN", "FLAGGED"}]_vars

\* C30: a /scan-pending batch or /scrape discovery that was running when
\* /kill was issued starts no further package or page, also when another
\* /scrape or /scan-pending request arrives after the kill.
C30_KillStopsRunningBatch ==
    [][\A h \in 1..MaxHandlers : handlers[h].killed => ~StartsPackage(h)]_vars

(***************************************************************************)
(* Properties of the database statements (SpecDb)                          *)
(***************************************************************************)
\* C13: in every reachable state of any interleaving of upserts, generate
\* calls, single-extension purges and purge-all, every scan_history row
\* refers to a row of the extensions table that exists.
C13_HistoryHasParent ==
    \A i \in 1..Len(scan_history) :
        \E e \in extensions : e.id = scan_history[i].extension_db_id

\* a generate call has inserted its history row while a purge of the same
\* extension is under way, and the row's parent is still there
C13_Witness ==
    \E g, p \in 1..MaxHandlers :
        /\ handlers[g].kind = "generate" /\ handlers[g].pc = "complete"
        /\ handlers[p].kind = "purge" /\ handlers[p].pc = "delete_row"
        /\ handlers[p].db_id = handlers[g].db_id
        /\ Referenced(scan_history, handlers[g].db_id)

\* C17: when the scan_history insert or completion write of a generate call
\* fails, the caller still receives the ThreatReport generate computed.
C17_FailureStillReturnsReport ==
    \A h \in 1..MaxHandlers :
        (handlers[h].kind = "generate" /\ handlers[h].pc = "done"
            /\ handlers[h].raised) =>
                handlers[h].returned

\* C14: once vsix_hash_sha256 of a row is written, no upsert_extension or
\* download_vsix call on that row replaces it with a different value.
C14_HashNeverReplaced ==
    [][\A e \in extensions :
          e.vsix_hash_sha256 # NULL =>
              \A f \in extensions' :
                  f.id = e.id => f.vsix_hash_sha256 = e.vsix_hash_sha256]_vars

(***************************************************************************)
(* Properties of reports compared with each other (SpecVerdicts)           *)
(***************************************************************************)
\* two reports agree on the four sub-scores, the composite score and the
\* blocklist status
SameScores(a, b) ==
    /\ a.ai_vibe_score = b.ai_vibe_score
    /\ a.static_analysis_score = b.static_analysis_score
    /\ a.behavioral_score = b.behavioral_score
    /\ a.trust_signal_score = b.trust_signal_score
    /\ a.composite_score = b.composite_score
    /\ a.is_blocklisted = b.is_blocklisted

\* the inputs of _determine_verdict besides the scores and the blocklist status
VtConfirmed(r) == r.vt_known_malicious /\ r.vt_detection_count >= 5
HasCritical(r) == r.findings.CRITICAL > 0

\* C21 as stated: two reports with identical sub-scores, composite score and
\* blocklist status have the same verdict.
C21_VerdictFromScoresAlone ==
    \A i, j \in 1..Len(reports) :
        SameScores(reports[i], reports[j]) =>
            reports[i].verdict = reports[j].verdict

\* C21: two reports with identical sub-scores, composite score and blocklist
\* status that also agree on whether VirusTotal reports the archive malicious
\* with at least 5 detections and on whether there is a CRITICAL finding have
\* the same verdict.
C21_VerdictFromScoresVtAndCritical ==
    \A i, j \in 1..Len(reports) :
        (/\ SameScores(reports[i], reports[j])
         /\ VtConfirmed(reports[i]) = VtConfirmed(reports[j])
         /\ HasCritical(reports[i]) = HasCritical(reports[j])) =>
            reports[i].verdict = reports[j].verdict

\* two different reports that agree on all of these
C21_Witness ==
    \E i, j \in 1..Len(reports) :
        /\ reports[i] # reports[j]
        /\ reports[i].verdict # "ERROR"
        /\ SameScores(reports[i], reports[j])
        /\ VtConfirmed(reports[i]) = VtConfirmed(reports[j])
        /\ HasCritical(reports[i]) = HasCritical(reports[j])

(***************************************************************************)
(* Properties of the files the AI stage analyses (SpecTargets)             *)
(***************************************************************************)
\* the .js files of the archive in which rules hit, highest severity first
HitFiles ==
    LET crit == SelectSeq(rule_hits, LAMBDA h : h.severity = "CRITICAL")
        rest == SelectSeq(rule_hits, LAMBDA h : h.severity # "CRITICAL")
    IN  AddTargets([i \in 1..Len(crit \o rest) |-> (crit \o rest)[i].file_path],
                   {f \in archive.files : EndsWithJs(f)}, <<>>)

\* C23: when the rule scan of a run produced findings in source files, the
\* AI stage of that run analyses the files in which rules hit, highest severity
\* first, instead of the manifest entry points; otherwise it analyses the
\* entry points resolved from main and browser; in both cases at most two
\* distinct files of the archive.
C23_RuleHitsAreAnalysed ==
    (pc = "done" /\ aiDone) =>
        /\ targets = IF HitFiles # <<>>
                     THEN SubSeq(HitFiles, 1, Min(Len(HitFiles), MaxTargets))
                     ELSE SubSeq(EntryTargets(archive), 1,
                                 Min(Len(EntryTargets(archive)), MaxTargets))
        /\ Len(targets) <= MaxTargets
        /\ Range(targets) \subseteq archive.files
        /\ Cardinality(Range(targets)) = Len(targets)

(***************************************************************************)
(* Properties of _chunk_source (SpecChunks)                                *)
(***************************************************************************)
\* the chunk budget in characters
Budget == max_chunk_tokens * CHARS_PER_TOKEN

\* the chunks joined in order
RECURSIVE Concat(_)
Concat(cs) == IF cs = <<>> THEN <<>> ELSE Head(cs) \o Concat(Tail(cs))

\* a text without its newline characters
WithoutNewlines(text) == SelectSeq(text, LAMBDA c : c # NL)

IsPrefix(a, b) == Len(a) <= Len(b) /\ SubSeq(b, 1, Len(a)) = a

\* text is the chunks cs in order with nothing but newline characters before,
\* between and after them
RECURSIVE Aligned(_, _)
Aligned(text, cs) ==
    IF cs = <<>> THEN \A i \in 1..Len(text) : text[i] = NL
    ELSE \/ /\ IsPrefix(Head(cs), text)
            /\ Aligned(SubSeq(text, Len(Head(cs)) + 1, Len(text)), Tail(cs))
         \/ /\ text # <<>>
            /\ Head(text) = NL
            /\ Aligned(Tail(text), cs)

\* C24: every chunk _chunk_source returns is at most the budget long, also
\* when the whole source is one line longer than the budget, and the chunks
\* in order are the source with only newline characters at the ends of chunks
\* removed: no other character is lost, duplicated or reordered.
C24_ChunksPreserveSource ==
    chunked =>
        /\ \A i \in 1..Len(chunks) : Len(chunks[i]) <= Budget
        /\ WithoutNewlines(Concat(chunks)) = WithoutNewlines(source)
        /\ Aligned(source, chunks)

C24_Witness ==
    /\ chunked
    /\ Len(source) > Budget
    /\ \A i \in 1..Len(source) : source[i] # NL
    /\ Len(chunks) = 2
    /\ Len(chunks[2]) < Budget

\* C25: the number of chunks _chunk_source returns for a source of length N
\* and budget B is at most ceil(N/B) + 1.
C25_ChunkCount ==
    chunked => Len(chunks) <= ((Len(source) + Budget - 1) \div Budget) + 1

(***************************************************************************)
(* Properties of ForensicChecker.scan_vsix (SpecForensic)                  *)
(***************************************************************************)
\* C27: an entry under a native-module path (node_modules, bin/, native/,
\* prebuilds/) whose bytes are an executable's never yields a
\* HIDDEN_EXECUTABLE finding, whatever its extension.
C27_NativeExecutableNotHidden ==
    scanned =>
        \A i \in 1..Len(entries) :
            (InNative(entries[i].filename) /\ entries[i].magic \in SUSPICIOUS_BINARY_TYPES) =>
                ~\E k \in 1..Len(forensic.findings) :
                    /\ forensic.findings[k].check_name = "HIDDEN_EXECUTABLE"
                    /\ forensic.findings[k].file_path = entries[i].filename

====
